---- MODULE Spec2Model ----
(***************************************************************************)
(* Whale detection and threshold resolution of Parowbot                    *)
(* (src/whale_detector.py, src/config.py), its acquisition layer: the     *)
(* retrying fetcher, the exchange adapters with their fallback and the     *)
(* simulated trades (src/exchange_monitor.py, src/crypto_monitor.py), the   *)
(* scheduler that polls the symbols in cycles, and the start and shutdown  *)
(* of the process (src/main.py, src/telegram_bot.py).                      *)
(*                                                                         *)
(* Representation choices:                                                 *)
(*  - a symbol is the sequence of its tokens: "BTCUSDT" is                 *)
(*    <<"BTC", "USDT">>, so that str.replace("USDT", "") is the removal of *)
(*    every "USDT" token and a suffix test is a test of the last token;    *)
(*  - a trade is the dict the adapters build (exchange_monitor.py:99-108): *)
(*    trade_id (0 stands for the empty id ''), price, qty, time.  price    *)
(*    and qty are floats in the code; the model keeps them in tenths, so   *)
(*    qty * price is in hundredths of a dollar and a threshold of t        *)
(*    dollars is Usd(t) hundredths;                                        *)
(*  - an identity key is a tuple: the trade_id alone, or the four parts of  *)
(*    the composite f-string;                                              *)
(*  - a _make_request call is a frame that moves from one await to the     *)
(*    next; the answers of the network are drawn from Outcomes, with       *)
(*    MAX_RETRIES >= 1 as the configuration requires;                      *)
(*  - a field of a native record is a JSON value with its kind, so that    *)
(*    float() and int() raise where the code's do;                         *)
(*  - the scheduler is a frame that moves from one await to the next, and  *)
(*    an awaited get_recent_trades is the list it returns or an exception; *)
(*  - main(), start() and every stop() call are frames of the same kind:  *)
(*    between two awaits a coroutine runs alone, and at an await any other *)
(*    task of the event loop can run;                                      *)
(*  - an aiohttp session is "none", "open" or "closed".                    *)
(***************************************************************************)
EXTENDS Integers, Sequences, FiniteSets, TLC

VARIABLES
    WHALE_THRESHOLDS,         \* config.WHALE_THRESHOLDS: dict base symbol -> dollars
    DEFAULT_WHALE_THRESHOLD,  \* config.DEFAULT_WHALE_THRESHOLD
    recent_alerts,            \* WhaleDetector.recent_alerts: dict symbol -> set of keys
    alert_log,                \* history: per symbol, the keys ever alerted, oldest
                              \* alert first, each key at its most recent alert
    last,                     \* history: the last call made, its arguments and result
    polls,                    \* history: the number of detect_whales calls so far
    MAX_RETRIES,              \* config.MAX_RETRIES
    RETRY_DELAY,              \* config.RETRY_DELAY, in seconds
    MAX_REQUESTS_PER_MINUTE,  \* config.MAX_REQUESTS_PER_MINUTE
    current_exchange,         \* ExchangeMonitor.current_exchange
    since_last_request,       \* per monitor, time.time() - self._last_request_time
    request,                  \* the frame of the _make_request call in progress
    fetch_log,                \* history: what that call has done so far, in order
    trades_call,              \* the frame of the get_recent_trades call in progress
    served,                   \* history: the adapters that returned a non-empty list
    bot,                      \* the frame of run_monitoring_loop and of the
                              \* check_whale_transactions call within it
    cycle_log,                \* history: what the current cycle has done, in order
    deliveries,               \* history: the send_whale_alert calls of all cycles
    running,                  \* WhaleAlertBot.running
    app,                      \* the frame of main() and of start() within it
    stops,                    \* the frames of the stop() calls, in order of call
    sessions                  \* the aiohttp session of the monitor and of the
                              \* notifier: "none", "open" or "closed"

detector_vars == <<WHALE_THRESHOLDS, DEFAULT_WHALE_THRESHOLD, recent_alerts, alert_log,
                   last, polls>>

monitor_vars == <<MAX_RETRIES, RETRY_DELAY, MAX_REQUESTS_PER_MINUTE, current_exchange,
                  since_last_request, request, fetch_log, trades_call, served>>

scheduler_vars == <<bot, cycle_log, deliveries>>

lifecycle_vars == <<running, app, stops, sessions>>

vars == <<detector_vars, monitor_vars, scheduler_vars, lifecycle_vars>>

----------------------------------------------------------------------------
(* Bounds of the model *)

\* bulk trades carry the trade ids 1..MaxTradeId
MaxTradeId == 150

\* detect_whales calls in one run
MaxPolls == 2

\* MAX_RETRIES is one of 1..MaxRetries
MaxRetries == 3

\* the longest batch of native records in a response
MaxBatch == 3

\* the number of monitoring cycles
MaxCycles == 2

----------------------------------------------------------------------------
(* Program constants *)

max_alerts_per_symbol == 100

keep_count == max_alerts_per_symbol \div 2

----------------------------------------------------------------------------
(* Sequences *)

Range(s) == {s[i] : i \in 1..Len(s)}

\* s[-n:] of Python
LastN(s, n) == IF Len(s) <= n THEN s ELSE SubSeq(s, Len(s) - n + 1, Len(s))

Reverse(s) == [i \in 1..Len(s) |-> s[Len(s) + 1 - i]]

----------------------------------------------------------------------------
(* Symbols and the threshold table (src/config.py) *)

BTCUSDT == <<"BTC", "USDT">>
ADAUSDT == <<"ADA", "USDT">>
USDCUSDT == <<"USDC", "USDT">>

Symbols == {BTCUSDT, ADAUSDT, USDCUSDT}

\* str.replace(old, ""): every occurrence goes, wherever it stands
Replace(symbol, old) == SelectSeq(symbol, LAMBDA tok : tok # old)

\* symbol.replace("USDT", "").replace("USDC", "")
BaseSymbol(symbol) == Replace(Replace(symbol, "USDT"), "USDC")

\* dict.get(key, default)
DictGet(d, key, default) == IF key \in DOMAIN d THEN d[key] ELSE default

\* d[key] = value
DictSet(d, key, value) == (key :> value) @@ d

get_whale_threshold(thresholds, default, symbol) ==
    DictGet(thresholds, BaseSymbol(symbol), default)

\* dollars in the unit of qty * price
Usd(dollars) == dollars * 100

----------------------------------------------------------------------------
(* Trades and identity keys (src/whale_detector.py) *)

Trade(trade_id, price, qty, time) ==
    [trade_id |-> trade_id, price |-> price, qty |-> qty, time |-> time]

NoSymbol == <<>>

\* the trade_id when it is non-empty, else f"{symbol}_{price}_{qty}_{timestamp}"
TradeKey(trade, symbol) ==
    IF trade.trade_id # 0
    THEN <<trade.trade_id>>
    ELSE <<symbol, trade.price, trade.qty, trade.time>>

usd_value(trade) == trade.qty * trade.price

\* mutant: `<` where the code has `<=`
_is_whale_trade_negative_only(trade, symbol, threshold) ==
    IF trade.qty < 0 \/ trade.price < 0
    THEN FALSE
    ELSE usd_value(trade) >= Usd(threshold)

_is_whale_trade(trade, symbol, threshold) ==
    IF trade.qty <= 0 \/ trade.price <= 0
    THEN FALSE
    ELSE usd_value(trade) >= Usd(threshold)

\* mutant: the key is looked up in the caches of all symbols
_is_duplicate_alert_any_symbol(alerts, trade, symbol) ==
    \E s \in DOMAIN alerts : TradeKey(trade, symbol) \in alerts[s]

\* mutant: the key is looked up in the dict, not in the symbol's set
_is_duplicate_alert_in_dict(alerts, trade, symbol) ==
    /\ symbol \in DOMAIN alerts
    /\ TradeKey(trade, symbol) \in DOMAIN alerts

_is_duplicate_alert(alerts, trade, symbol) ==
    /\ symbol \in DOMAIN alerts
    /\ TradeKey(trade, symbol) \in alerts[symbol]

\* mutant: the key is added to the cache of every symbol that has one
_record_alert_every_symbol(alerts, trade, symbol) ==
    [s \in DOMAIN alerts \cup {symbol} |->
        DictGet(alerts, s, {}) \cup {TradeKey(trade, symbol)}]

_record_alert(alerts, trade, symbol) ==
    DictSet(alerts, symbol, DictGet(alerts, symbol, {}) \cup {TradeKey(trade, symbol)})

\* mutant: the key of every trade of the batch is recorded
DetectStep_records_all(st, trade, symbol, threshold) ==
    IF /\ _is_whale_trade(trade, symbol, threshold)
       /\ ~_is_duplicate_alert(st.recent_alerts, trade, symbol)
    THEN [recent_alerts |-> _record_alert(st.recent_alerts, trade, symbol),
          whale_trades |-> Append(st.whale_trades, trade)]
    ELSE [st EXCEPT !.recent_alerts = _record_alert(st.recent_alerts, trade, symbol)]

\* mutant: a whale trade is put at the head of the list
DetectStep_prepends(st, trade, symbol, threshold) ==
    IF /\ _is_whale_trade(trade, symbol, threshold)
       /\ ~_is_duplicate_alert(st.recent_alerts, trade, symbol)
    THEN [recent_alerts |-> _record_alert(st.recent_alerts, trade, symbol),
          whale_trades |-> <<trade>> \o st.whale_trades]
    ELSE st

\* The body of the for loop of detect_whales, on the cache and the
\* whale_trades list so far.
DetectStep(st, trade, symbol, threshold) ==
    IF /\ _is_whale_trade(trade, symbol, threshold)
       /\ ~_is_duplicate_alert(st.recent_alerts, trade, symbol)
    THEN [recent_alerts |-> _record_alert(st.recent_alerts, trade, symbol),
          whale_trades |-> Append(st.whale_trades, trade)]
    ELSE st

\* The for loop of detect_whales over trades[lo..hi], in order: the first half
\* of the range, then the second half from the state the first half leaves.
\* (TLC evaluates operator arguments lazily; the test on `half` makes it
\* evaluate the first half before it enters the second, which keeps the
\* evaluation shallow.)
RECURSIVE DetectLoop(_, _, _, _, _, _)
DetectLoop(st, trades, symbol, threshold, lo, hi) ==
    IF lo > hi THEN st
    ELSE IF lo = hi THEN DetectStep(st, trades[lo], symbol, threshold)
    ELSE LET mid == (lo + hi) \div 2
             half == DetectLoop(st, trades, symbol, threshold, lo, mid)
         IN  IF Len(half.whale_trades) >= 0
             THEN DetectLoop(half, trades, symbol, threshold, mid + 1, hi)
             ELSE half

\* The alert log after the keys of `alerted` were alerted in that order.
LogAlerts(log, alerted) ==
    SelectSeq(log, LAMBDA k : k \notin Range(alerted)) \o alerted

\* list(a_set): Python leaves the iteration order of a set unspecified (it
\* follows the hashes, which for str keys change from process to process).
\* The model offers these orders, each a rearrangement of the order in which
\* the keys of the set were inserted.
SetOrders == {"insertion", "reversed", "interleaved"}

InsertionOrder(keys, log) == SelectSeq(log, LAMBDA k : k \in keys)

Interleave(s) ==
    LET odd == (Len(s) + 1) \div 2
    IN  [i \in 1..Len(s) |-> IF i <= odd THEN s[2 * i - 1] ELSE s[2 * (i - odd)]]

ListOfSet(keys, log, order) ==
    CASE order = "insertion" -> InsertionOrder(keys, log)
      [] order = "reversed" -> Reverse(InsertionOrder(keys, log))
      [] order = "interleaved" -> Interleave(InsertionOrder(keys, log))

\* mutant: the cap is compared with the number of symbols, not of keys
_cleanup_old_alerts_counts_symbols(alerts, log, order) ==
    [s \in DOMAIN alerts |->
        IF Cardinality(DOMAIN alerts) > max_alerts_per_symbol
        THEN Range(LastN(ListOfSet(alerts[s], log[s], order), keep_count))
        ELSE alerts[s]]

_cleanup_old_alerts(alerts, log, order) ==
    [s \in DOMAIN alerts |->
        IF Cardinality(alerts[s]) > max_alerts_per_symbol
        THEN Range(LastN(ListOfSet(alerts[s], log[s], order), keep_count))
        ELSE alerts[s]]

\* detect_whales: the returned list, the cache it leaves, and the alert log.
detect_whales(alerts, log, thresholds, default, trades, symbol, order) ==
    IF trades = <<>>
    THEN [whale_trades |-> <<>>, recent_alerts |-> alerts, alert_log |-> log,
          threshold |-> 0, trimmed |-> {}]
    ELSE LET threshold == get_whale_threshold(thresholds, default, symbol)
             loop == DetectLoop([recent_alerts |-> alerts, whale_trades |-> <<>>],
                                trades, symbol, threshold, 1, Len(trades))
             alerted == [i \in 1..Len(loop.whale_trades) |->
                            TradeKey(loop.whale_trades[i], symbol)]
             logged == [log EXCEPT ![symbol] = LogAlerts(log[symbol], alerted)]
             cleaned == _cleanup_old_alerts(loop.recent_alerts, logged, order)
         IN  [whale_trades |-> loop.whale_trades,
              recent_alerts |-> cleaned,
              alert_log |-> logged,
              threshold |-> threshold,
              trimmed |-> {s \in DOMAIN cleaned : cleaned[s] # loop.recent_alerts[s]}]

\* mutant: the count is the number of symbols that have a cache
get_whale_summary_counts_symbols(alerts, thresholds, default, symbol) ==
    [summary |-> [symbol |-> symbol,
                  threshold_usd |-> get_whale_threshold(thresholds, default, symbol),
                  recent_alerts_count |-> Cardinality(DOMAIN alerts),
                  detector_status |-> "active"],
     recent_alerts |-> alerts,
     WHALE_THRESHOLDS |-> thresholds]

\* mutant: the cache is read with setdefault, which creates the entry
get_whale_summary_setdefault(alerts, thresholds, default, symbol) ==
    [summary |-> [symbol |-> symbol,
                  threshold_usd |-> get_whale_threshold(thresholds, default, symbol),
                  recent_alerts_count |-> Cardinality(DictGet(alerts, symbol, {})),
                  detector_status |-> "active"],
     recent_alerts |-> DictSet(alerts, symbol, DictGet(alerts, symbol, {})),
     WHALE_THRESHOLDS |-> thresholds]

\* get_whale_summary: the returned dict and the state the call leaves.
get_whale_summary(alerts, thresholds, default, symbol) ==
    [summary |-> [symbol |-> symbol,
                  threshold_usd |-> get_whale_threshold(thresholds, default, symbol),
                  recent_alerts_count |-> Cardinality(DictGet(alerts, symbol, {})),
                  detector_status |-> "active"],
     recent_alerts |-> alerts,
     WHALE_THRESHOLDS |-> thresholds]

\* mutant: only "USDT" is removed from the symbol
update_threshold_usdt_only(thresholds, symbol, new_threshold) ==
    [ok |-> TRUE,
     WHALE_THRESHOLDS |-> DictSet(thresholds, Replace(symbol, "USDT"), new_threshold)]

\* mutant: the table is rebuilt with the updated entry alone
update_threshold_fresh_table(thresholds, symbol, new_threshold) ==
    [ok |-> TRUE,
     WHALE_THRESHOLDS |-> (BaseSymbol(symbol) :> new_threshold)]

\* update_threshold: the returned flag and the table the call leaves.
update_threshold(thresholds, symbol, new_threshold) ==
    [ok |-> TRUE,
     WHALE_THRESHOLDS |-> DictSet(thresholds, BaseSymbol(symbol), new_threshold)]

----------------------------------------------------------------------------
(* Inputs *)

\* the trade of the scenarios: 50000 x 2.5 = 125000 dollars, trade_id "tx123"
Tx123 == Trade(123, 500000, 25, 1)

\* the same trade from a source that gives no trade id
NoIdTrade == Trade(0, 500000, 25, 1)

\* 0.5 x 1000 = 500 dollars
SmallTrade == Trade(7, 5, 10000, 2)

ZeroQtyTrade == Trade(8, 500000, 0, 3)

\* negative price and quantity, nominal value 125000 dollars
NegativeTrade == Trade(0, -500000, -25, 4)

ProbeTrades == {Tx123, NoIdTrade, SmallTrade, ZeroQtyTrade, NegativeTrade}

\* what a poll of these trades can return: nothing, one trade, or two trades
\* oldest first (the same trade twice when two pages overlap)
ProbeBatches ==
    {<<>>} \cup {<<t>> : t \in ProbeTrades}
    \cup {<<p[1], p[2]>> : p \in {q \in ProbeTrades \X ProbeTrades : q[1].time <= q[2].time}}

NewThresholds == {-1, 0}

\* the symbols whose threshold is updated at runtime
UpdatedSymbols == {BTCUSDT, USDCUSDT}

\* WHALE_THRESHOLDS as _parse_thresholds leaves it for "BTC:100000,USDC:5000"
ParsedThresholds == [base \in {<<"BTC">>, <<"USDC">>} |->
                        IF base = <<"BTC">> THEN 100000 ELSE 5000]

\* a whale-sized trade with trade id n
Bulk(n) == Trade(n, 500000, 25, n)

Run(lo, hi) == [i \in 1..(hi - lo + 1) |-> Bulk(lo + i - 1)]

BulkBatches ==
    {Run(1, hi) : hi \in {max_alerts_per_symbol, max_alerts_per_symbol + 1, MaxTradeId}}
    \cup {Run(max_alerts_per_symbol + 1, MaxTradeId)}
    \cup {Run(n, n) : n \in {1, max_alerts_per_symbol + 1, MaxTradeId}}
    \cup {<<Bulk(1), Bulk(1)>>}

----------------------------------------------------------------------------
(* Acquisition: the fetcher (src/exchange_monitor.py, src/crypto_monitor.py) *)

\* Time is counted in tenths of a second.
Seconds(s) == s * 10

Monitors == {"ExchangeMonitor", "CryptoMonitor"}

\* self.rate_limit_delay
rate_limit_delay(monitor, max_requests_per_minute) ==
    IF monitor = "ExchangeMonitor"
    THEN Seconds(60) \div max_requests_per_minute
    ELSE Seconds(5)

\* the monitor has no attribute _last_request_time yet
NoRequestYet == -1

Min(a, b) == IF a <= b THEN a ELSE b

Max(a, b) == IF a >= b THEN a ELSE b

\* the interval between requests that the configuration asks for
interval(max_requests_per_minute) == Seconds(60) \div max_requests_per_minute

\* the longest elapsed time that is told from the longer ones: the monitor's
\* rate_limit_delay or the configured interval, whichever is longer
LongAgo(monitor, max_requests_per_minute) ==
    Max(rate_limit_delay(monitor, max_requests_per_minute),
        interval(max_requests_per_minute))

\* `took` more time has passed.  An elapsed time is kept up to LongAgo:
\* _rate_limit treats all longer times alike.
Elapse(since, took, max_requests_per_minute) ==
    [m \in Monitors |->
        IF since[m] = NoRequestYet
        THEN NoRequestYet
        ELSE Min(since[m] + took, LongAgo(m, max_requests_per_minute))]

\* _rate_limit: how long it sleeps, and the elapsed times it leaves
_rate_limit(since, monitor, max_requests_per_minute) ==
    LET delay == rate_limit_delay(monitor, max_requests_per_minute)
        slept == IF since[monitor] # NoRequestYet /\ since[monitor] < delay
                 THEN delay - since[monitor]
                 ELSE 0
    IN  [slept |-> slept,
         since_last_request |->
             [Elapse(since, slept, max_requests_per_minute) EXCEPT ![monitor] = 0]]

\* A response body: text that is not JSON, a JSON array of native trades, or a
\* JSON object with the retCode and the result list of Bybit.
TextBody == [kind |-> "text", retCode |-> 0, list |-> <<>>]

ListBody(list) == [kind |-> "list", retCode |-> 0, list |-> list]

DictBody(retCode, list) == [kind |-> "dict", retCode |-> retCode, list |-> list]

None == [kind |-> "None", retCode |-> 0, list |-> <<>>]

\* What session.get and response.json() come to: an HTTP status with its
\* body, or the exception raised (status 0).
Response(status, body) == [status |-> status, raised |-> "", body |-> body]

Raised(exception) == [status |-> 0, raised |-> exception, body |-> None]

\* mutant: the 429 branch retries at once
rate_limited_wait_none(monitor, attempt, retry_delay) == 0

\* the wait on a 429
rate_limited_wait(monitor, attempt, retry_delay) ==
    IF monitor = "CryptoMonitor"
    THEN Seconds(30 + (attempt * 15))
    ELSE Seconds(retry_delay * (attempt + 1))

\* mutant: the same delay after every failure
retry_wait_flat(attempt, retry_delay) == Seconds(retry_delay)

\* the wait after any other failure
retry_wait(attempt, retry_delay) == Seconds(retry_delay * (attempt + 1))

\* The frame of a _make_request call: pc is the await the call stands before
\* ("rate_limit", "get", "rate_limited_sleep", "retry_sleep"), or "done" with
\* the returned value in data; "idle" before the first call.
Frame(monitor, pc, attempt, data) ==
    [monitor |-> monitor, pc |-> pc, attempt |-> attempt, data |-> data]

IdleFrame == Frame("", "idle", 0, None)

\* mutant: the rate limiter is awaited before the loop, not in it
Iteration_acquire_once(monitor, attempt, max_retries) ==
    IF attempt < max_retries
    THEN Frame(monitor, IF attempt = 0 THEN "rate_limit" ELSE "get", attempt, None)
    ELSE Frame(monitor, "done", attempt, None)

\* mutant: the loop runs while attempt <= MAX_RETRIES
Iteration_one_more(monitor, attempt, max_retries) ==
    IF attempt <= max_retries
    THEN Frame(monitor, "rate_limit", attempt, None)
    ELSE Frame(monitor, "done", attempt, None)

\* `for attempt in range(MAX_RETRIES)`: the iteration with this index, or the
\* end of the loop and `return None`
Iteration(monitor, attempt, max_retries) ==
    IF attempt < max_retries
    THEN Frame(monitor, "rate_limit", attempt, None)
    ELSE Frame(monitor, "done", attempt, None)

\* mutant: asyncio.TimeoutError has no handler and leaves the call
AfterGet_timeout_uncaught(frame, outcome, max_retries) ==
    IF outcome.status = 200 /\ outcome.body.kind # "text"
    THEN Frame(frame.monitor, "done", frame.attempt, outcome.body)
    ELSE IF outcome.status = 429
    THEN Frame(frame.monitor, "rate_limited_sleep", frame.attempt, None)
    ELSE IF outcome.raised = "TimeoutError"
    THEN Frame(frame.monitor, "raised", frame.attempt, None)
    ELSE IF frame.attempt < max_retries - 1
    THEN Frame(frame.monitor, "retry_sleep", frame.attempt, None)
    ELSE Frame(frame.monitor, "done", frame.attempt + 1, None)

\* mutant: a 200 is returned only from the last iteration
AfterGet_retries_after_200(frame, outcome, max_retries) ==
    IF outcome.status = 200 /\ outcome.body.kind # "text"
           /\ frame.attempt >= max_retries - 1
    THEN Frame(frame.monitor, "done", frame.attempt, outcome.body)
    ELSE IF outcome.status = 429
    THEN Frame(frame.monitor, "rate_limited_sleep", frame.attempt, None)
    ELSE IF frame.attempt < max_retries - 1
    THEN Frame(frame.monitor, "retry_sleep", frame.attempt, None)
    ELSE Frame(frame.monitor, "done", frame.attempt + 1, None)

\* the frame after the outcome of session.get in iteration frame.attempt
AfterGet(frame, outcome, max_retries) ==
    IF outcome.status = 200 /\ outcome.body.kind # "text"
    THEN Frame(frame.monitor, "done", frame.attempt, outcome.body)
    ELSE IF outcome.status = 429
    THEN Frame(frame.monitor, "rate_limited_sleep", frame.attempt, None)
    ELSE IF frame.attempt < max_retries - 1
    THEN Frame(frame.monitor, "retry_sleep", frame.attempt, None)
    ELSE Iteration(frame.monitor, frame.attempt + 1, max_retries)

\* An entry of the log of a call: an "acquire" of the rate limiter or a "sleep"
\* with the time it waited, or a "request" with what came of it.
NoOutcome == Raised("")

Event(ev, attempt, outcome, waited) ==
    [ev |-> ev, attempt |-> attempt, outcome |-> outcome, waited |-> waited]

----------------------------------------------------------------------------
(* Acquisition: the adapters and their fallback (src/exchange_monitor.py) *)

\* A field of a native record, as response.json() gives it: a number, or a
\* string that reads as one, with its value; a string that is no number; null;
\* or a key the record lacks.
Number(x) == [json |-> "number", value |-> x]

Text == [json |-> "text", value |-> 0]

Null == [json |-> "null", value |-> 0]

Absent == [json |-> "absent", value |-> 0]

\* trade.get(key, 0)
GetOrZero(field) == IF field.json = "absent" THEN Number(0) ELSE field

\* float(x): the exception it raises, or its value
float(field) ==
    [raised |-> CASE field.json = "text" -> "ValueError"
                  [] field.json = "null" -> "TypeError"
                  [] OTHER -> "",
     value |-> field.value]

\* int(x)
int(field) == float(field)

\* the side of a Bybit record: a string, or a key the record lacks
Side(string) == [present |-> TRUE, value |-> string]

NoSide == [present |-> FALSE, value |-> ""]

\* trade.get('side', 'Unknown')
GetOrUnknown(field) == IF field.present THEN field.value ELSE "Unknown"

\* the native trade records of the two exchanges
BinanceRecord(id, price, qty, time, isBuyerMaker) ==
    [id |-> id, price |-> price, qty |-> qty, time |-> time,
     isBuyerMaker |-> isBuyerMaker]

BybitRecord(execId, price, size, time, side) ==
    [execId |-> execId, price |-> price, size |-> size, time |-> time, side |-> side]

\* `not result`
Falsy(data) == data = None \/ (data.kind = "list" /\ data.list = <<>>)

\* the processed_trade of the Binance adapter
BinanceTrade(record, symbol) ==
    [symbol |-> symbol,
     price |-> float(GetOrZero(record.price)).value,
     qty |-> float(GetOrZero(record.qty)).value,
     time |-> int(GetOrZero(record.time)).value,
     side |-> IF record.isBuyerMaker THEN "Buy" ELSE "Sell",
     trade_id |-> record.id, exchange |-> "Binance"]

\* the processed_trade of the Bybit adapter
BybitTrade(record, symbol) ==
    [symbol |-> symbol,
     price |-> float(GetOrZero(record.price)).value,
     qty |-> float(GetOrZero(record.size)).value,
     time |-> int(GetOrZero(record.time)).value,
     side |-> GetOrUnknown(record.side),
     trade_id |-> record.execId, exchange |-> "Bybit"]

\* `except (ValueError, TypeError): continue`: building the processed_trade
\* of this record raises one of the two
BinanceSkipped(record) ==
    \/ float(GetOrZero(record.price)).raised # ""
    \/ float(GetOrZero(record.qty)).raised # ""
    \/ int(GetOrZero(record.time)).raised # ""

BybitSkipped(record) ==
    \/ float(GetOrZero(record.price)).raised # ""
    \/ float(GetOrZero(record.size)).raised # ""
    \/ int(GetOrZero(record.time)).raised # ""

\* How a call ends: it returns a list, or an exception leaves it.
Returned(trades) == [raised |-> "", trades |-> trades]

Raise(exception) == [raised |-> exception, trades |-> <<>>]

\* mutant: one record that does not parse discards the batch
binance_try_drops_batch(data, symbol) ==
    IF Falsy(data) THEN Returned(<<>>)
    ELSE IF data.kind # "list" THEN Raise("AttributeError")
    ELSE IF \E i \in 1..Len(data.list) : BinanceSkipped(data.list[i])
    THEN Returned(<<>>)
    ELSE Returned([i \in 1..Len(data.list) |-> BinanceTrade(data.list[i], symbol)])

\* The try block of get_recent_trades_binance, from what _make_request
\* returned.  Iterating a JSON object yields its keys, and key.get raises
\* AttributeError.
binance_try(data, symbol) ==
    IF Falsy(data) THEN Returned(<<>>)
    ELSE IF data.kind # "list" THEN Raise("AttributeError")
    ELSE LET kept == SelectSeq(data.list, LAMBDA record : ~BinanceSkipped(record))
         IN  Returned([i \in 1..Len(kept) |-> BinanceTrade(kept[i], symbol)])

\* the try block of get_recent_trades_bybit: `'retCode' in result` is false of
\* a JSON array
bybit_try(data, symbol) ==
    IF Falsy(data) THEN Returned(<<>>)
    ELSE IF data.kind = "dict" /\ data.retCode = 0
    THEN LET kept == SelectSeq(data.list, LAMBDA record : ~BybitSkipped(record))
         IN  Returned([i \in 1..Len(kept) |-> BybitTrade(kept[i], symbol)])
    ELSE Returned(<<>>)

\* `except Exception: return []`
Handled(result) == IF result.raised # "" THEN Returned(<<>>) ELSE result

\* mutant: the adapter has no handler of its own
get_recent_trades_binance_unhandled(data, symbol) == binance_try(data, symbol)

get_recent_trades_binance(data, symbol) == Handled(binance_try(data, symbol))

get_recent_trades_bybit(data, symbol) == Handled(bybit_try(data, symbol))

----------------------------------------------------------------------------
(* Acquisition: the simulated trades of CryptoMonitor (src/crypto_monitor.py) *)

\* the body of CoinGecko's simple/price for one coin: its 'usd' entry
PricesBody(usd) == [kind |-> "prices", retCode |-> 0, list |-> <<usd>>]

\* self.symbol_map, as far as it maps the symbols of the model
symbol_map == {BTCUSDT, ADAUSDT}

\* what get_current_prices comes to for one symbol: its price, or no entry
Price(price) == [raised |-> "", found |-> TRUE, price |-> price]

NoPrice == [raised |-> "", found |-> FALSE, price |-> 0]

RaisePrice(exception) == [raised |-> exception, found |-> FALSE, price |-> 0]

\* The try block of get_current_prices([symbol]), from what _make_request
\* returned: a JSON array has no items(), and the entries of any other JSON
\* object belong to no coin that was asked for.
prices_try(data, symbol) ==
    IF Falsy(data) THEN NoPrice
    ELSE IF data.kind = "list" THEN RaisePrice("AttributeError")
    ELSE IF data.kind # "prices" THEN NoPrice
    ELSE IF data.list[1].json = "absent" THEN NoPrice
    ELSE IF float(data.list[1]).raised # ""
    THEN RaisePrice(float(data.list[1]).raised)
    ELSE Price(float(data.list[1]).value)

\* get_current_prices: `except Exception: return {}`
get_current_prices(data, symbol) ==
    IF prices_try(data, symbol).raised # "" THEN NoPrice ELSE prices_try(data, symbol)

\* The random draws of _generate_whale_trades: whether random() < 0.25, the
\* side, the multiplier in tenths, the price variation in thousandths and the
\* digits of the trade id.
Draw(generate, side, multiplier, price_variation, id) ==
    [generate |-> generate, side |-> side, multiplier |-> multiplier,
     price_variation |-> price_variation, id |-> id]

\* _generate_whale_trades; the dict it builds also holds side_label and
\* usd_value, which nothing reads
_generate_whale_trades(symbol, current_price, threshold, draw) ==
    IF ~draw.generate THEN Returned(<<>>)
    ELSE IF current_price = 0 THEN Raise("ZeroDivisionError")
    ELSE Returned(<<[symbol |-> symbol,
                     price |-> (current_price * (1000 + draw.price_variation)) \div 1000,
                     qty |-> (threshold * draw.multiplier * 10) \div current_price,
                     time |-> 1,
                     side |-> draw.side,
                     trade_id |-> draw.id,
                     exchange |-> "Multiple-Exchanges"]>>)

\* the try block of CryptoMonitor.get_recent_trades
crypto_try(prices, symbol, threshold, draw) ==
    IF ~prices.found THEN Returned(<<>>)
    ELSE _generate_whale_trades(symbol, prices.price, threshold, draw)

\* CryptoMonitor.get_recent_trades, from what get_current_prices returned
crypto_get_recent_trades(prices, symbol, threshold, draw) ==
    Handled(crypto_try(prices, symbol, threshold, draw))

\* The frame of a get_recent_trades call: pc is the adapter it awaits
\* ("binance", "bybit", or "prices" in CryptoMonitor), "done" with the returned
\* list in trades, or "raised"
\* when an exception left the call; queried lists the adapters called so far
\* and what each returned.
TradesCall(pc, symbol, queried, trades) ==
    [pc |-> pc, symbol |-> symbol, queried |-> queried, trades |-> trades]

IdleCall == TradesCall("idle", NoSymbol, <<>>, <<>>)

Queried(adapter, trades) == [adapter |-> adapter, trades |-> trades]

\* mutant: the Bybit adapter is called whatever the Binance adapter returned
AfterBinance_always_falls_back(call, exchange, trades) ==
    [call |-> TradesCall("bybit", call.symbol,
                         Append(call.queried, Queried("binance", trades)), <<>>),
     current_exchange |-> exchange]

\* get_recent_trades, when the Binance adapter has returned `trades`: the
\* frame and the current_exchange it leaves
AfterBinance(call, exchange, trades) ==
    LET queried == Append(call.queried, Queried("binance", trades))
    IN  IF trades # <<>>
        THEN [call |-> TradesCall("done", call.symbol, queried, trades),
              current_exchange |-> "binance"]
        ELSE [call |-> TradesCall("bybit", call.symbol, queried, <<>>),
              current_exchange |-> exchange]

\* get_recent_trades, when the Bybit adapter has returned `trades`
AfterBybit(call, exchange, trades) ==
    LET queried == Append(call.queried, Queried("bybit", trades))
    IN  IF trades # <<>>
        THEN [call |-> TradesCall("done", call.symbol, queried, trades),
              current_exchange |-> "bybit"]
        ELSE [call |-> TradesCall("done", call.symbol, queried, <<>>),
              current_exchange |-> exchange]

\* get_recent_trades has no handler: an exception of an adapter leaves it
Propagated(call, exchange, adapter) ==
    [call |-> TradesCall("raised", call.symbol,
                         Append(call.queried, Queried(adapter, <<>>)), <<>>),
     current_exchange |-> exchange]

\* the history of the adapters that served a request
Served(last_source, ever) == [last |-> last_source, ever |-> ever]

Serve(history, call) ==
    IF call.pc = "done" /\ call.trades # <<>>
    THEN LET adapter == call.queried[Len(call.queried)].adapter
         IN  Served(adapter, history.ever \cup {adapter})
    ELSE history

----------------------------------------------------------------------------
(* The scheduler: run_monitoring_loop and check_whale_transactions
   (src/main.py) *)

\* config.MONITORED_SYMBOLS, in the configured order
MONITORED_SYMBOLS == <<BTCUSDT, ADAUSDT, USDCUSDT>>

\* config.CHECK_INTERVAL, in seconds
CHECK_INTERVAL == 60

\* the seconds of `await asyncio.sleep(3)` after a symbol
inter_symbol_delay == 3

\* The frame of the loop: pc is the await it stands before ("fetch", "notify",
\* "delay" within check_whale_transactions; "interval", the sleep between
\* cycles), or "check", the top of `while self.running`.  cycles counts the
\* check_whale_transactions calls begun, index is the position of the current
\* symbol in MONITORED_SYMBOLS, sent the whale_trades already notified.
Bot(pc, cycles, index, whale_trades, sent, successful_checks) ==
    [pc |-> pc, cycles |-> cycles, index |-> index, whale_trades |-> whale_trades,
     sent |-> sent, successful_checks |-> successful_checks]

IdleBot == Bot("check", 0, 0, <<>>, 0, 0)

\* mutant: the loop leaves out the sleep between cycles
NextSymbol_no_interval(frame) ==
    IF frame.index < Len(MONITORED_SYMBOLS)
    THEN [frame EXCEPT !.pc = "fetch", !.index = frame.index + 1,
                       !.whale_trades = <<>>, !.sent = 0]
    ELSE [frame EXCEPT !.pc = "check", !.whale_trades = <<>>, !.sent = 0]

\* The for loop goes on: to the next symbol, or past the last one out of
\* check_whale_transactions to the sleep of run_monitoring_loop.
NextSymbol(frame) ==
    IF frame.index < Len(MONITORED_SYMBOLS)
    THEN [frame EXCEPT !.pc = "fetch", !.index = frame.index + 1,
                       !.whale_trades = <<>>, !.sent = 0]
    ELSE [frame EXCEPT !.pc = "interval", !.whale_trades = <<>>, !.sent = 0]

\* mutant: an exception of one symbol ends the cycle
OnError_aborts(frame) ==
    [frame EXCEPT !.pc = "interval", !.whale_trades = <<>>, !.sent = 0]

\* `except Exception: ... continue` within the for loop
OnError(frame) == NextSymbol(frame)

\* `if not trades: successful_checks += 1; continue`
OnEmpty(frame) ==
    NextSymbol([frame EXCEPT !.successful_checks = frame.successful_checks + 1])

\* after detect_whales: the first send_whale_alert, or past an empty for loop
\* to `successful_checks += 1` and the sleep
OnDetected(frame, whale_trades) ==
    IF whale_trades # <<>>
    THEN [frame EXCEPT !.pc = "notify", !.whale_trades = whale_trades, !.sent = 0]
    ELSE [frame EXCEPT !.pc = "delay",
                       !.successful_checks = frame.successful_checks + 1]

\* mutant: the for loop over whale_trades ends after one send_whale_alert
OnNotified_first_only(frame) ==
    [frame EXCEPT !.pc = "delay", !.sent = frame.sent + 1,
                  !.successful_checks = frame.successful_checks + 1]

\* after a send_whale_alert: the next one, or `successful_checks += 1` and
\* the sleep
OnNotified(frame) ==
    IF frame.sent + 1 < Len(frame.whale_trades)
    THEN [frame EXCEPT !.sent = frame.sent + 1]
    ELSE [frame EXCEPT !.pc = "delay", !.sent = frame.sent + 1,
                       !.successful_checks = frame.successful_checks + 1]

\* An entry of the log of a cycle: a "fetch" with its outcome ("raised",
\* "empty", "trades"), a "notify" of a trade with its outcome ("sent",
\* "failed"), a "delay" after a symbol, or the "interval" after the cycle,
\* with the seconds slept.
CycleEvent(ev, index, outcome, trade_id, waited) ==
    [ev |-> ev, index |-> index, outcome |-> outcome, trade_id |-> trade_id,
     waited |-> waited]

\* mutant: a cycle-level exception ends the loop
OnCycleError_terminates(frame) ==
    [frame EXCEPT !.pc = "exited", !.whale_trades = <<>>, !.sent = 0]

\* `except Exception` of run_monitoring_loop: the error is logged and the
\* loop stands before `await asyncio.sleep(5)` ("pause")
OnCycleError(frame) ==
    [frame EXCEPT !.pc = "pause", !.whale_trades = <<>>, !.sent = 0]

\* the seconds of that sleep
error_pause == 5

\* the loop is left: "exited" when `while self.running` finds running false,
\* "cancelled" through a CancelledError
Leave(frame, pc) == [frame EXCEPT !.pc = pc, !.whale_trades = <<>>, !.sent = 0]

\* An entry of deliveries: send_whale_alert was called for the trade with
\* this identity key under this symbol, in this cycle, with this outcome.
Delivery(cycle, symbol, key, outcome) ==
    [cycle |-> cycle, symbol |-> symbol, key |-> key, outcome |-> outcome]

----------------------------------------------------------------------------
(* Start and shutdown: main, WhaleAlertBot.start and stop (src/main.py), and
   the aiohttp sessions of the monitor and the notifier *)

\* signals delivered to the process in one run
MaxSignals == 1

\* _get_session: a new session takes the place of a missing or closed one
_get_session(session) ==
    IF session = "none" \/ session = "closed" THEN "open" ELSE session

\* cleanup: `if self.session and not self.session.closed` the session is closed
cleanup(session) ==
    IF session # "none" /\ session # "closed" THEN "closed" ELSE session

Sessions(monitor, notifier) == [monitor |-> monitor, notifier |-> notifier]

\* The frame of main() and of the start() it awaits: pc is "start" before
\* the first await, then the await it stands before ("initialize",
\* "keepalive", "startup_notification", "loop" for run_monitoring_loop,
\* "stop" for the stop() of the finally clause), or "returned".
App(pc, keepalive_server) == [pc |-> pc, keepalive_server |-> keepalive_server]

\* The frame of a stop() call, made by main ("main") or as the task of the
\* signal handler ("signal"): pc is "called" before the call has run, then
\* the await it stands before ("keepalive", "send", "notifier_cleanup",
\* "monitor_cleanup"), "done", or "cancelled" when the event loop was closed
\* over it.  attempt is the iteration of send_message.
StopFrame(caller, pc, attempt) == [caller |-> caller, pc |-> pc, attempt |-> attempt]

Stopped(frame, sess) == [frame |-> frame, sessions |-> sess]

\* `await self.notifier.send_message(...)`: an iteration of send_message
\* obtains the session and posts
BeginSend(frame, sess, attempt) ==
    Stopped([frame EXCEPT !.pc = "send", !.attempt = attempt],
            [sess EXCEPT !.notifier = _get_session(sess.notifier)])

\* `if self.monitor: await self.monitor.cleanup()`, the last await of stop()
MonitorCleanup(frame, sess) ==
    Stopped([frame EXCEPT !.pc = IF cleanup(sess.monitor) # sess.monitor
                                 THEN "monitor_cleanup" ELSE "done"],
            [sess EXCEPT !.monitor = cleanup(sess.monitor)])

\* `await self.notifier.cleanup()`, and on to the monitor when there is no
\* session to close
NotifierCleanup(frame, sess) ==
    IF cleanup(sess.notifier) # sess.notifier
    THEN Stopped([frame EXCEPT !.pc = "notifier_cleanup"],
                 [sess EXCEPT !.notifier = cleanup(sess.notifier)])
    ELSE MonitorCleanup(frame, sess)

\* stop() from one await to the next, after `self.running = False`.  The
\* notifier and the monitor exist from the first await of start() on; retry
\* tells whether the post of send_message failed in a way it retries.
stop(frame, sess, keepalive_server, max_retries, retry) ==
    CASE frame.pc = "called" ->
             IF keepalive_server
             THEN Stopped([frame EXCEPT !.pc = "keepalive"], sess)
             ELSE BeginSend(frame, sess, 0)
      [] frame.pc = "keepalive" -> BeginSend(frame, sess, 0)
      [] frame.pc = "send" ->
             IF retry /\ frame.attempt < max_retries - 1
             THEN BeginSend(frame, sess, frame.attempt + 1)
             ELSE NotifierCleanup(frame, sess)
      [] frame.pc = "notifier_cleanup" -> MonitorCleanup(frame, sess)
      [] frame.pc = "monitor_cleanup" -> Stopped([frame EXCEPT !.pc = "done"], sess)

\* asyncio.run closes the event loop once main() has returned: the tasks
\* still pending are cancelled where they stand
CloseLoop(frames) ==
    [i \in DOMAIN frames |->
        IF frames[i].pc # "done" THEN [frames[i] EXCEPT !.pc = "cancelled"]
        ELSE frames[i]]

----------------------------------------------------------------------------
(* State machine *)

NoSummary == [symbol |-> NoSymbol, threshold_usd |-> 0, recent_alerts_count |-> 0,
              detector_status |-> ""]

Call(op, symbol, trades, new_threshold) ==
    [op |-> op, symbol |-> symbol, trades |-> trades, new_threshold |-> new_threshold,
     whale_trades |-> <<>>, threshold |-> 0, trimmed |-> {},
     summary |-> NoSummary, ok |-> FALSE]

\* WhaleAlertBot.__init__, before main() awaits start()
NotStarted ==
    /\ running = FALSE
    /\ app = App("start", FALSE)
    /\ stops = <<>>
    /\ sessions = Sessions("none", "none")

\* start() has reached run_monitoring_loop and no signal has come: the
\* notifier's session was opened by test_connection, the monitor has made
\* no request yet
LoopEntered ==
    /\ running = TRUE
    /\ app = App("loop", TRUE)
    /\ stops = <<>>
    /\ sessions = Sessions("none", "open")

\* Config.__init__ and the constructors, under given WHALE_THRESHOLDS,
\* MAX_RETRIES and MAX_REQUESTS_PER_MINUTE
Constructed(thresholds, max_retries, max_requests_per_minute) ==
    /\ WHALE_THRESHOLDS = thresholds
    /\ DEFAULT_WHALE_THRESHOLD = 10000
    /\ recent_alerts = <<>>
    /\ alert_log = [s \in Symbols |-> <<>>]
    /\ last = Call("__init__", NoSymbol, <<>>, 0)
    /\ polls = 0
    /\ MAX_RETRIES = max_retries
    /\ RETRY_DELAY = 5
    /\ MAX_REQUESTS_PER_MINUTE = max_requests_per_minute
    /\ current_exchange = "binance"
    /\ since_last_request = [m \in Monitors |-> NoRequestYet]
    /\ request = IdleFrame
    /\ fetch_log = <<>>
    /\ trades_call = IdleCall
    /\ served = Served("none", {})
    /\ bot = IdleBot
    /\ cycle_log = <<>>
    /\ deliveries = <<>>

InitWith(thresholds, max_retries, max_requests_per_minute) ==
    /\ Constructed(thresholds, max_retries, max_requests_per_minute)
    /\ NotStarted

\* the defaults of Config
Init == InitWith(ParsedThresholds, 3, 100)

\* list(a_set) is evaluated only for a cache above the cap: before that its
\* order plays no part and one order stands for all.
OrdersAt(alerts, trades, symbol) ==
    IF Cardinality(DictGet(alerts, symbol, {})) + Len(trades) > max_alerts_per_symbol
    THEN SetOrders
    ELSE {"insertion"}

DetectWhales(trades, symbol, order) ==
    LET out == detect_whales(recent_alerts, alert_log, WHALE_THRESHOLDS,
                             DEFAULT_WHALE_THRESHOLD, trades, symbol, order)
    IN  /\ polls < MaxPolls
        /\ polls' = polls + 1
        /\ recent_alerts' = out.recent_alerts
        /\ alert_log' = out.alert_log
        /\ last' = [Call("detect_whales", symbol, trades, 0) EXCEPT
                        !.whale_trades = out.whale_trades,
                        !.threshold = out.threshold,
                        !.trimmed = out.trimmed]
        /\ UNCHANGED <<WHALE_THRESHOLDS, DEFAULT_WHALE_THRESHOLD>>
        /\ UNCHANGED monitor_vars
        /\ UNCHANGED scheduler_vars
        /\ UNCHANGED lifecycle_vars

GetWhaleSummary(symbol) ==
    LET out == get_whale_summary(recent_alerts, WHALE_THRESHOLDS,
                                 DEFAULT_WHALE_THRESHOLD, symbol)
    IN  /\ recent_alerts' = out.recent_alerts
        /\ WHALE_THRESHOLDS' = out.WHALE_THRESHOLDS
        /\ last' = [Call("get_whale_summary", symbol, <<>>, 0) EXCEPT
                        !.summary = out.summary]
        /\ UNCHANGED <<DEFAULT_WHALE_THRESHOLD, alert_log, polls>>
        /\ UNCHANGED monitor_vars
        /\ UNCHANGED scheduler_vars
        /\ UNCHANGED lifecycle_vars

UpdateThreshold(symbol, new_threshold) ==
    LET out == update_threshold(WHALE_THRESHOLDS, symbol, new_threshold)
    IN  /\ WHALE_THRESHOLDS' = out.WHALE_THRESHOLDS
        /\ last' = [Call("update_threshold", symbol, <<>>, new_threshold) EXCEPT
                        !.ok = out.ok]
        /\ UNCHANGED <<DEFAULT_WHALE_THRESHOLD, recent_alerts, alert_log, polls>>
        /\ UNCHANGED monitor_vars
        /\ UNCHANGED scheduler_vars
        /\ UNCHANGED lifecycle_vars

Next ==
    \/ \E trades \in ProbeBatches, symbol \in Symbols :
           \E order \in OrdersAt(recent_alerts, trades, symbol) :
               DetectWhales(trades, symbol, order)
    \/ \E symbol \in Symbols : GetWhaleSummary(symbol)
    \/ \E symbol \in UpdatedSymbols, new_threshold \in NewThresholds :
           UpdateThreshold(symbol, new_threshold)

Spec == Init /\ [][Next]_vars

\* The detector fed long batches for one symbol, so that its cache is trimmed.
NextTrim ==
    \E trades \in BulkBatches :
        \E order \in OrdersAt(recent_alerts, trades, BTCUSDT) :
            DetectWhales(trades, BTCUSDT, order)

SpecTrim == Init /\ [][NextTrim]_vars

----------------------------------------------------------------------------
(* State machine of the acquisition layer *)

\* what a source can answer to one request
BinanceNative == BinanceRecord(123, Number(500000), Number(25), Number(1), FALSE)

BybitNative == BybitRecord(456, Number(500000), Number(25), Number(1), Side("Buy"))

Bodies ==
    {TextBody, ListBody(<<>>), ListBody(<<BinanceNative>>),
     DictBody(0, <<>>), DictBody(0, <<BybitNative>>), DictBody(10001, <<>>),
     PricesBody(Number(500000)), PricesBody(Number(0)), PricesBody(Text)}

\* what random can draw for one call of _generate_whale_trades
Draws ==
    {Draw(FALSE, "", 0, 0, 0)}
    \cup {Draw(TRUE, "Buy", multiplier, 10, 10001) : multiplier \in {11, 50}}
    \cup {Draw(TRUE, "Sell", multiplier, -10, 10001) : multiplier \in {11, 50}}

Outcomes ==
    {Response(200, body) : body \in Bodies}
    \cup {Response(429, TextBody), Response(500, TextBody)}
    \cup {Raised("TimeoutError"), Raised("ClientError")}

\* how long a request can take, in tenths of a second
RequestTimes == {0, 2}

\* A process constructs one monitor (main.py: self.monitor): the requests of
\* a run all come from the same one.
InUse(monitor) ==
    \A other \in Monitors \ {monitor} : since_last_request[other] = NoRequestYet

NoCallInProgress ==
    /\ request.pc \in {"idle", "done"}
    /\ trades_call.pc \in {"idle", "done"}

\* _make_request called for itself (test_connection, get_current_prices)
MakeRequest(monitor) ==
    /\ NoCallInProgress
    /\ InUse(monitor)
    /\ request' = Iteration(monitor, 0, MAX_RETRIES)
    /\ fetch_log' = <<>>
    /\ trades_call' = IdleCall
    /\ UNCHANGED <<MAX_RETRIES, RETRY_DELAY, MAX_REQUESTS_PER_MINUTE,
                     current_exchange, since_last_request, served>>
    /\ UNCHANGED detector_vars
    /\ UNCHANGED scheduler_vars
    /\ UNCHANGED lifecycle_vars

\* await self._rate_limit()
RateLimit ==
    LET out == _rate_limit(since_last_request, request.monitor, MAX_REQUESTS_PER_MINUTE)
    IN  /\ request.pc = "rate_limit"
        /\ since_last_request' = out.since_last_request
        /\ fetch_log' = Append(fetch_log,
                               Event("acquire", request.attempt, NoOutcome, out.slept))
        /\ request' = [request EXCEPT !.pc = "get"]
        /\ UNCHANGED <<MAX_RETRIES, RETRY_DELAY, MAX_REQUESTS_PER_MINUTE,
                     current_exchange, trades_call, served>>
        /\ UNCHANGED detector_vars
        /\ UNCHANGED scheduler_vars
        /\ UNCHANGED lifecycle_vars

\* session.get(url) and the branch taken on its outcome
Get(outcome, took) ==
    /\ request.pc = "get"
    /\ since_last_request' = Elapse(since_last_request, took, MAX_REQUESTS_PER_MINUTE)
    /\ fetch_log' = Append(fetch_log, Event("request", request.attempt, outcome, 0))
    /\ request' = AfterGet(request, outcome, MAX_RETRIES)
    /\ UNCHANGED <<MAX_RETRIES, RETRY_DELAY, MAX_REQUESTS_PER_MINUTE,
                     current_exchange, trades_call, served>>
    /\ UNCHANGED detector_vars
    /\ UNCHANGED scheduler_vars
    /\ UNCHANGED lifecycle_vars

\* the sleep of the 429 branch, and `continue`
RateLimitedSleep ==
    LET wait == rate_limited_wait(request.monitor, request.attempt, RETRY_DELAY)
    IN  /\ request.pc = "rate_limited_sleep"
        /\ since_last_request' = Elapse(since_last_request, wait, MAX_REQUESTS_PER_MINUTE)
        /\ fetch_log' = Append(fetch_log, Event("sleep", request.attempt, NoOutcome, wait))
        /\ request' = Iteration(request.monitor, request.attempt + 1, MAX_RETRIES)
        /\ UNCHANGED <<MAX_RETRIES, RETRY_DELAY, MAX_REQUESTS_PER_MINUTE,
                     current_exchange, trades_call, served>>
        /\ UNCHANGED detector_vars
        /\ UNCHANGED scheduler_vars
        /\ UNCHANGED lifecycle_vars

\* the sleep at the end of a failed iteration that is not the last
RetrySleep ==
    LET wait == retry_wait(request.attempt, RETRY_DELAY)
    IN  /\ request.pc = "retry_sleep"
        /\ since_last_request' = Elapse(since_last_request, wait, MAX_REQUESTS_PER_MINUTE)
        /\ fetch_log' = Append(fetch_log, Event("sleep", request.attempt, NoOutcome, wait))
        /\ request' = Iteration(request.monitor, request.attempt + 1, MAX_RETRIES)
        /\ UNCHANGED <<MAX_RETRIES, RETRY_DELAY, MAX_REQUESTS_PER_MINUTE,
                     current_exchange, trades_call, served>>
        /\ UNCHANGED detector_vars
        /\ UNCHANGED scheduler_vars
        /\ UNCHANGED lifecycle_vars

\* get_recent_trades(symbol) is called and calls the Binance adapter
GetRecentTrades(symbol) ==
    /\ NoCallInProgress
    /\ InUse("ExchangeMonitor")
    /\ trades_call' = TradesCall("binance", symbol, <<>>, <<>>)
    /\ request' = Iteration("ExchangeMonitor", 0, MAX_RETRIES)
    /\ fetch_log' = <<>>
    /\ UNCHANGED <<MAX_RETRIES, RETRY_DELAY, MAX_REQUESTS_PER_MINUTE,
                     current_exchange, since_last_request, served>>
    /\ UNCHANGED detector_vars
    /\ UNCHANGED scheduler_vars
    /\ UNCHANGED lifecycle_vars

\* the Binance adapter returns: get_recent_trades returns its list, or calls
\* the Bybit adapter
BinanceReturns ==
    LET result == get_recent_trades_binance(request.data, trades_call.symbol)
        out == IF result.raised # ""
               THEN Propagated(trades_call, current_exchange, "binance")
               ELSE AfterBinance(trades_call, current_exchange, result.trades)
    IN  /\ trades_call.pc = "binance"
        /\ request.pc = "done"
        /\ trades_call' = out.call
        /\ current_exchange' = out.current_exchange
        /\ served' = Serve(served, out.call)
        /\ IF out.call.pc = "bybit"
           THEN /\ request' = Iteration("ExchangeMonitor", 0, MAX_RETRIES)
                /\ fetch_log' = <<>>
           ELSE UNCHANGED <<request, fetch_log>>
        /\ UNCHANGED <<MAX_RETRIES, RETRY_DELAY, MAX_REQUESTS_PER_MINUTE,
                     since_last_request>>
        /\ UNCHANGED detector_vars
        /\ UNCHANGED scheduler_vars
        /\ UNCHANGED lifecycle_vars

\* the Bybit adapter returns, and get_recent_trades with it
BybitReturns ==
    LET result == get_recent_trades_bybit(request.data, trades_call.symbol)
        out == IF result.raised # ""
               THEN Propagated(trades_call, current_exchange, "bybit")
               ELSE AfterBybit(trades_call, current_exchange, result.trades)
    IN  /\ trades_call.pc = "bybit"
        /\ request.pc = "done"
        /\ trades_call' = out.call
        /\ current_exchange' = out.current_exchange
        /\ served' = Serve(served, out.call)
        /\ UNCHANGED <<MAX_RETRIES, RETRY_DELAY, MAX_REQUESTS_PER_MINUTE,
                     since_last_request, request, fetch_log>>
        /\ UNCHANGED detector_vars
        /\ UNCHANGED scheduler_vars
        /\ UNCHANGED lifecycle_vars

\* CryptoMonitor.get_recent_trades(symbol) is called and asks for the price;
\* a symbol that symbol_map lacks gets [] without a request
CryptoGetRecentTrades(symbol) ==
    /\ NoCallInProgress
    /\ InUse("CryptoMonitor")
    /\ IF symbol \in symbol_map
       THEN /\ trades_call' = TradesCall("prices", symbol, <<>>, <<>>)
            /\ request' = Iteration("CryptoMonitor", 0, MAX_RETRIES)
            /\ fetch_log' = <<>>
       ELSE /\ trades_call' = TradesCall("done", symbol, <<>>, <<>>)
            /\ UNCHANGED <<request, fetch_log>>
    /\ UNCHANGED <<MAX_RETRIES, RETRY_DELAY, MAX_REQUESTS_PER_MINUTE,
                   current_exchange, since_last_request, served>>
    /\ UNCHANGED detector_vars
    /\ UNCHANGED scheduler_vars
    /\ UNCHANGED lifecycle_vars

\* get_current_prices returns, and CryptoMonitor.get_recent_trades with it
PricesReturn(draw) ==
    LET threshold == get_whale_threshold(WHALE_THRESHOLDS, DEFAULT_WHALE_THRESHOLD,
                                         trades_call.symbol)
        result == crypto_get_recent_trades(
                      get_current_prices(request.data, trades_call.symbol),
                      trades_call.symbol, threshold, draw)
    IN  /\ trades_call.pc = "prices"
        /\ request.pc = "done"
        /\ trades_call' = TradesCall(IF result.raised # "" THEN "raised" ELSE "done",
                                     trades_call.symbol,
                                     <<Queried("coingecko", result.trades)>>,
                                     result.trades)
        /\ UNCHANGED <<MAX_RETRIES, RETRY_DELAY, MAX_REQUESTS_PER_MINUTE,
                       current_exchange, since_last_request, served,
                       request, fetch_log>>
        /\ UNCHANGED detector_vars
        /\ UNCHANGED scheduler_vars
        /\ UNCHANGED lifecycle_vars

NextMonitor ==
    \/ \E monitor \in Monitors : MakeRequest(monitor)
    \/ RateLimit
    \/ \E outcome \in Outcomes, took \in RequestTimes : Get(outcome, took)
    \/ RateLimitedSleep
    \/ RetrySleep
    \/ \E symbol \in {BTCUSDT, ADAUSDT} : GetRecentTrades(symbol)
    \/ BinanceReturns
    \/ BybitReturns
    \/ \E symbol \in Symbols : CryptoGetRecentTrades(symbol)
    \/ \E draw \in Draws : PricesReturn(draw)

\* settings of MAX_REQUESTS_PER_MINUTE: the default, and ten a minute
RequestRates == {100, 10}

InitMonitor ==
    \E max_retries \in 1..MaxRetries, max_requests_per_minute \in RequestRates :
        InitWith(ParsedThresholds, max_retries, max_requests_per_minute)

SpecMonitor == InitMonitor /\ [][NextMonitor]_vars

\* The adapters of ExchangeMonitor fed batches of native records, some of
\* them with fields that are no numbers, null, or missing.
BinanceRecords ==
    {BinanceRecord(101, price, Number(25), Number(1), FALSE) :
         price \in {Number(500000), Text, Absent}}
    \cup {BinanceRecord(102, Number(500000), qty, Number(2), TRUE) :
              qty \in {Number(25), Null, Number(0), Number(-25)}}
    \cup {BinanceRecord(103, Number(500000), Number(25), Text, TRUE)}

BybitRecords ==
    {BybitRecord(201, price, Number(25), Number(1), Side("Buy")) :
         price \in {Number(500000), Text}}
    \cup {BybitRecord(202, Number(500000), Number(25), Number(2), side) :
              side \in {Side("Sell"), Side("buy"), NoSide}}
    \cup {BybitRecord(203, Number(500000), Absent, Null, Side("Sell"))}

Batches(records) == UNION {[1..n -> records] : n \in 0..MaxBatch}

BatchOutcomes ==
    {Response(200, ListBody(batch)) : batch \in Batches(BinanceRecords)}
    \cup {Response(200, DictBody(0, batch)) : batch \in Batches(BybitRecords)}

NextAdapter ==
    \/ GetRecentTrades(BTCUSDT)
    \/ RateLimit
    \/ \E outcome \in BatchOutcomes : Get(outcome, 0)
    \/ BinanceReturns
    \/ BybitReturns

SpecAdapter == Init /\ [][NextAdapter]_vars

----------------------------------------------------------------------------
(* State machine of the scheduler *)

\* WHALE_THRESHOLDS as parsed from "BTC:100000,USDC:5000" and from
\* "BTC:0,USDC:5000": _parse_thresholds takes any number
CycleThresholds == {ParsedThresholds, [ParsedThresholds EXCEPT ![<<"BTC">>] = 0]}

CycleDraws ==
    {Draw(FALSE, "", 0, 0, 0), Draw(TRUE, "Buy", 11, 10, 10001),
     Draw(TRUE, "Sell", 50, -10, 10002)}

\* what get_current_prices can return for the symbol
CyclePrices(symbol) ==
    IF symbol \in symbol_map THEN {NoPrice, Price(50000)} ELSE {NoPrice}

\* How `await self.monitor.get_recent_trades(symbol)` can end: with a list
\* CryptoMonitor.get_recent_trades returns, or with an Exception.  The
\* monitor's own handlers leave none in the fetches modelled above; the
\* scheduler does not rely on that.
FetchResults(symbol, threshold) ==
    {Raise("Exception")}
    \cup {crypto_get_recent_trades(prices, symbol, threshold, draw) :
              prices \in CyclePrices(symbol), draw \in CycleDraws}

FetchOutcome(result) ==
    IF result.raised # "" THEN "raised"
    ELSE IF result.trades = <<>> THEN "empty"
    ELSE "trades"

\* the call made a request: it returned trades, or it returned nothing for
\* a symbol that get_current_prices asks the price of
Requested(symbol, result) ==
    \/ result.trades # <<>>
    \/ result.raised = "" /\ symbol \in symbol_map

\* the symbol of the for loop, and its threshold
CurrentSymbol == MONITORED_SYMBOLS[bot.index]

CurrentThreshold ==
    get_whale_threshold(WHALE_THRESHOLDS, DEFAULT_WHALE_THRESHOLD, CurrentSymbol)

\* `while self.running`: check_whale_transactions is called and awaits the
\* trades of the first symbol
CheckWhaleTransactions ==
    /\ app.pc = "loop"
    /\ bot.pc = "check"
    /\ running
    /\ bot.cycles < MaxCycles
    /\ bot' = Bot("fetch", bot.cycles + 1, 1, <<>>, 0, 0)
    /\ cycle_log' = <<>>
    /\ UNCHANGED deliveries
    /\ UNCHANGED detector_vars
    /\ UNCHANGED monitor_vars
    /\ UNCHANGED lifecycle_vars

\* get_recent_trades ends, and the loop body runs to its next await: through
\* the handler or `if not trades` to the next symbol, or through
\* detect_whales to the first send_whale_alert or to the sleep.  A call
\* that returned trades made a request, for which _make_request obtained the
\* monitor's session.
Fetch(result, order) ==
    LET symbol == CurrentSymbol
        out == detect_whales(recent_alerts, alert_log, WHALE_THRESHOLDS,
                             DEFAULT_WHALE_THRESHOLD, result.trades, symbol, order)
    IN  /\ bot.pc = "fetch"
        /\ cycle_log' = Append(cycle_log,
                               CycleEvent("fetch", bot.index, FetchOutcome(result), 0, 0))
        /\ IF result.raised # ""
           THEN /\ bot' = OnError(bot)
                /\ UNCHANGED detector_vars
           ELSE IF result.trades = <<>>
           THEN /\ bot' = OnEmpty(bot)
                /\ UNCHANGED detector_vars
           ELSE /\ bot' = OnDetected(bot, out.whale_trades)
                /\ polls' = polls + 1
                /\ recent_alerts' = out.recent_alerts
                /\ alert_log' = out.alert_log
                /\ last' = [Call("detect_whales", symbol, result.trades, 0) EXCEPT
                                !.whale_trades = out.whale_trades,
                                !.threshold = out.threshold,
                                !.trimmed = out.trimmed]
                /\ UNCHANGED <<WHALE_THRESHOLDS, DEFAULT_WHALE_THRESHOLD>>
        /\ sessions' = IF Requested(symbol, result)
                       THEN [sessions EXCEPT !.monitor = _get_session(sessions.monitor)]
                       ELSE sessions
        /\ UNCHANGED <<deliveries, running, app, stops>>
        /\ UNCHANGED monitor_vars

\* send_whale_alert for the next whale trade: send_message obtains the
\* notifier's session and posts; what it raises is caught
Notify(outcome) ==
    /\ bot.pc = "notify"
    /\ cycle_log' = Append(cycle_log,
                           CycleEvent("notify", bot.index, outcome,
                                      bot.whale_trades[bot.sent + 1].trade_id, 0))
    /\ deliveries' = Append(deliveries,
                            Delivery(bot.cycles, CurrentSymbol,
                                     TradeKey(bot.whale_trades[bot.sent + 1],
                                              CurrentSymbol),
                                     outcome))
    /\ bot' = OnNotified(bot)
    /\ sessions' = [sessions EXCEPT !.notifier = _get_session(sessions.notifier)]
    /\ UNCHANGED <<running, app, stops>>
    /\ UNCHANGED detector_vars
    /\ UNCHANGED monitor_vars

\* await asyncio.sleep(3)
Delay ==
    /\ bot.pc = "delay"
    /\ cycle_log' = Append(cycle_log,
                           CycleEvent("delay", bot.index, "", 0, inter_symbol_delay))
    /\ bot' = NextSymbol(bot)
    /\ UNCHANGED deliveries
    /\ UNCHANGED detector_vars
    /\ UNCHANGED monitor_vars
    /\ UNCHANGED lifecycle_vars

\* await asyncio.sleep(self.config.CHECK_INTERVAL)
Interval ==
    /\ bot.pc = "interval"
    /\ cycle_log' = Append(cycle_log,
                           CycleEvent("interval", bot.index, "", 0, CHECK_INTERVAL))
    /\ bot' = [bot EXCEPT !.pc = "check"]
    /\ UNCHANGED deliveries
    /\ UNCHANGED detector_vars
    /\ UNCHANGED monitor_vars
    /\ UNCHANGED lifecycle_vars

NextCycle ==
    \/ CheckWhaleTransactions
    \/ /\ bot.pc = "fetch"
       /\ \E result \in FetchResults(CurrentSymbol, CurrentThreshold) :
              \E order \in OrdersAt(recent_alerts, result.trades, CurrentSymbol) :
                  Fetch(result, order)
    \/ \E outcome \in {"sent", "failed"} : Notify(outcome)
    \/ Delay
    \/ Interval

InitCycle ==
    /\ \E thresholds \in CycleThresholds : Constructed(thresholds, 3, 100)
    /\ LoopEntered

SpecCycle == InitCycle /\ [][NextCycle]_vars

\* The scheduler over a monitor that returns more than one trade in a poll:
\* ExchangeMonitor has the interface of CryptoMonitor, and its
\* get_recent_trades returns the batch of an adapter.
WhaleRecord(id) == BinanceRecord(id, Number(500000), Number(25), Number(1), FALSE)

\* 0.5 x 1000 = 500 dollars, below every threshold
SmallRecord == BinanceRecord(303, Number(5), Number(10000), Number(1), TRUE)

\* what a poll finds: BTCUSDT trades most, ADAUSDT little and USDCUSDT not
DeliveryBatches(symbol) ==
    IF symbol = BTCUSDT
    THEN {<<>>, <<WhaleRecord(301)>>, <<WhaleRecord(301), WhaleRecord(302)>>,
          <<SmallRecord, WhaleRecord(302), WhaleRecord(302)>>}
    ELSE IF symbol = ADAUSDT THEN {<<>>, <<WhaleRecord(301)>>}
    ELSE {<<>>}

DeliveryResults(symbol) ==
    {get_recent_trades_binance(ListBody(batch), symbol) :
         batch \in DeliveryBatches(symbol)}

NextDelivery ==
    \/ CheckWhaleTransactions
    \/ /\ bot.pc = "fetch"
       /\ \E result \in DeliveryResults(CurrentSymbol) :
              \E order \in OrdersAt(recent_alerts, result.trades, CurrentSymbol) :
                  Fetch(result, order)
    \/ \E outcome \in {"sent", "failed"} : Notify(outcome)
    \/ Delay
    \/ Interval

InitDelivery == Constructed(ParsedThresholds, 3, 100) /\ LoopEntered

SpecDelivery == InitDelivery /\ [][NextDelivery]_vars

----------------------------------------------------------------------------
(* State machine of start and shutdown *)

\* main() awaits start(), which runs to its first await: initialize() has
\* built the monitor and the notifier, and test_connection has obtained the
\* notifier's session for its request
Start ==
    /\ app.pc = "start"
    /\ app' = [app EXCEPT !.pc = "initialize"]
    /\ sessions' = [sessions EXCEPT !.notifier = _get_session(sessions.notifier)]
    /\ UNCHANGED <<running, stops>>
    /\ UNCHANGED detector_vars
    /\ UNCHANGED monitor_vars
    /\ UNCHANGED scheduler_vars

\* notifier.initialize() ends, whatever it returns; start() creates the
\* keep-alive server and awaits its start
Initialized ==
    /\ app.pc = "initialize"
    /\ app' = App("keepalive", TRUE)
    /\ UNCHANGED <<running, stops, sessions>>
    /\ UNCHANGED detector_vars
    /\ UNCHANGED monitor_vars
    /\ UNCHANGED scheduler_vars

\* the keep-alive server has started or failed to; send_startup_notification
\* awaits send_message
KeepaliveStarted ==
    /\ app.pc = "keepalive"
    /\ app' = [app EXCEPT !.pc = "startup_notification"]
    /\ sessions' = [sessions EXCEPT !.notifier = _get_session(sessions.notifier)]
    /\ UNCHANGED <<running, stops>>
    /\ UNCHANGED detector_vars
    /\ UNCHANGED monitor_vars
    /\ UNCHANGED scheduler_vars

\* `self.running = True`, and run_monitoring_loop is entered
StartupNotified ==
    /\ app.pc = "startup_notification"
    /\ running' = TRUE
    /\ app' = [app EXCEPT !.pc = "loop"]
    /\ UNCHANGED <<stops, sessions>>
    /\ UNCHANGED detector_vars
    /\ UNCHANGED monitor_vars
    /\ UNCHANGED scheduler_vars

\* SIGINT or SIGTERM while main() stands at an await: signal_handler creates
\* the task of a stop() call
Signal ==
    /\ app.pc \notin {"start", "returned"}
    /\ Len(SelectSeq(stops, LAMBDA frame : frame.caller = "signal")) < MaxSignals
    /\ stops' = Append(stops, StopFrame("signal", "called", 0))
    /\ UNCHANGED <<running, app, sessions>>
    /\ UNCHANGED detector_vars
    /\ UNCHANGED monitor_vars
    /\ UNCHANGED scheduler_vars

\* a stop() call runs to its next await; its first run begins with
\* `self.running = False`
Stop(i, retry) ==
    LET out == stop(stops[i], sessions, app.keepalive_server, MAX_RETRIES, retry)
    IN  /\ app.pc # "returned"
        /\ stops[i].pc \notin {"done", "cancelled"}
        /\ running' = IF stops[i].pc = "called" THEN FALSE ELSE running
        /\ stops' = [stops EXCEPT ![i] = out.frame]
        /\ sessions' = out.sessions
        /\ UNCHANGED app
        /\ UNCHANGED detector_vars
        /\ UNCHANGED monitor_vars
        /\ UNCHANGED scheduler_vars

\* `while self.running` finds running false: run_monitoring_loop and start()
\* return, and the finally clause of main() calls stop()
LoopExits ==
    /\ app.pc = "loop"
    /\ bot.pc = "check"
    /\ ~running
    /\ bot' = Leave(bot, "exited")
    /\ app' = [app EXCEPT !.pc = "stop"]
    /\ stops' = Append(stops, StopFrame("main", "called", 0))
    /\ UNCHANGED <<cycle_log, deliveries, running, sessions>>
    /\ UNCHANGED detector_vars
    /\ UNCHANGED monitor_vars

\* the task of main() is cancelled while the loop sleeps between two cycles:
\* the CancelledError passes every `except Exception`, the loop is left, and
\* the finally clause of main() calls stop()
Cancelled ==
    /\ app.pc = "loop"
    /\ bot.pc \in {"interval", "pause"}
    /\ bot' = Leave(bot, "cancelled")
    /\ app' = [app EXCEPT !.pc = "stop"]
    /\ stops' = Append(stops, StopFrame("main", "called", 0))
    /\ UNCHANGED <<cycle_log, deliveries, running, sessions>>
    /\ UNCHANGED detector_vars
    /\ UNCHANGED monitor_vars

\* the stop() of the finally clause is done: main() returns, and asyncio.run
\* closes the event loop
MainReturns ==
    /\ app.pc = "stop"
    /\ \E i \in 1..Len(stops) : stops[i].caller = "main" /\ stops[i].pc = "done"
    /\ app' = [app EXCEPT !.pc = "returned"]
    /\ stops' = CloseLoop(stops)
    /\ UNCHANGED <<running, sessions>>
    /\ UNCHANGED detector_vars
    /\ UNCHANGED monitor_vars
    /\ UNCHANGED scheduler_vars

\* An Exception leaves check_whale_transactions, whose own handlers catch
\* what the loop body raises; run_monitoring_loop does not rely on that.
CycleError ==
    /\ app.pc = "loop"
    /\ bot.pc = "fetch"
    /\ cycle_log' = Append(cycle_log, CycleEvent("error", bot.index, "raised", 0, 0))
    /\ bot' = OnCycleError(bot)
    /\ UNCHANGED deliveries
    /\ UNCHANGED detector_vars
    /\ UNCHANGED monitor_vars
    /\ UNCHANGED lifecycle_vars

\* await asyncio.sleep(5) in the handler, then the top of the loop
Pause ==
    /\ bot.pc = "pause"
    /\ cycle_log' = Append(cycle_log, CycleEvent("pause", bot.index, "", 0, error_pause))
    /\ bot' = [bot EXCEPT !.pc = "check"]
    /\ UNCHANGED deliveries
    /\ UNCHANGED detector_vars
    /\ UNCHANGED monitor_vars
    /\ UNCHANGED lifecycle_vars

\* what a poll returns while the process starts and stops: a simulated
\* trade of BTCUSDT when its price is known, and nothing else
BotDraw(symbol) ==
    IF symbol = BTCUSDT THEN Draw(TRUE, "Buy", 11, 10, 10001)
    ELSE Draw(FALSE, "", 0, 0, 0)

BotResults(symbol, threshold) ==
    {crypto_get_recent_trades(prices, symbol, threshold, BotDraw(symbol)) :
         prices \in CyclePrices(symbol)}

NextBot ==
    \/ Start
    \/ Initialized
    \/ KeepaliveStarted
    \/ StartupNotified
    \/ Signal
    \/ \E i \in 1..Len(stops), retry \in BOOLEAN : Stop(i, retry)
    \/ LoopExits
    \/ Cancelled
    \/ MainReturns
    \/ CheckWhaleTransactions
    \/ /\ bot.pc = "fetch"
       /\ \E result \in BotResults(CurrentSymbol, CurrentThreshold) :
              \E order \in OrdersAt(recent_alerts, result.trades, CurrentSymbol) :
                  Fetch(result, order)
    \/ Notify("sent")
    \/ Delay
    \/ Interval
    \/ CycleError
    \/ Pause

SpecBot == Init /\ [][NextBot]_vars

----------------------------------------------------------------------------
(* Vocabulary of the properties *)

CacheOf(alerts, symbol) == DictGet(alerts, symbol, {})

KeysOf(trades, symbol) == [i \in 1..Len(trades) |-> TradeKey(trades[i], symbol)]

Invalid(trade) == trade.qty <= 0 \/ trade.price <= 0

\* the trade has a positive quantity and price and meets the threshold
Qualifies(trade, threshold) ==
    trade.qty > 0 /\ trade.price > 0 /\ trade.qty * trade.price >= Usd(threshold)

\* trades[i] carries a key that neither the cache nor an earlier trade of the
\* batch holds
FirstSeen(alerts, trades, symbol, i) ==
    /\ TradeKey(trades[i], symbol) \notin CacheOf(alerts, symbol)
    /\ \A j \in 1..(i - 1) : TradeKey(trades[j], symbol) # TradeKey(trades[i], symbol)

\* the symbol without its quote suffix
stripQuoteSuffix(symbol) ==
    IF Len(symbol) > 0 /\ symbol[Len(symbol)] \in {"USDT", "USDC"}
    THEN SubSeq(symbol, 1, Len(symbol) - 1)
    ELSE symbol

\* the keys alerted after the most recent alert of `key`
NewerThan(log, key) ==
    LET at == CHOOSE p \in 1..Len(log) : log[p] = key
    IN  {log[q] : q \in (at + 1)..Len(log)}

Detected == last.op = "detect_whales"

----------------------------------------------------------------------------
(* C1..C10 *)

\* C1: in every detect_whales call, each trade of the batch with qty > 0,
\* price > 0 and qty * price >= the symbol's threshold, whose key is neither
\* in the symbol's cache when the call starts nor carried by an earlier trade
\* of the batch, is in the returned list.
C1_QualifyingFirstSeenReturned ==
    [][last'.op = "detect_whales" =>
        \A i \in 1..Len(last'.trades) :
            ( /\ Qualifies(last'.trades[i],
                           get_whale_threshold(WHALE_THRESHOLDS, DEFAULT_WHALE_THRESHOLD,
                                               last'.symbol))
              /\ FirstSeen(recent_alerts, last'.trades, last'.symbol, i) )
            => last'.trades[i] \in Range(last'.whale_trades)]_vars

\* a call under a threshold of 0 returned the 500 dollar trade
C1_Witness ==
    /\ Detected
    /\ last.threshold = 0
    /\ SmallTrade \in Range(last.whale_trades)

\* C2: a trade with qty <= 0 or price <= 0 is in no returned list and its key
\* is in no alert cache, whatever the threshold and the cache before.
C2_InvalidNeverAlerted ==
    /\ Detected => \A i \in 1..Len(last.whale_trades) : ~Invalid(last.whale_trades[i])
    /\ \A symbol \in DOMAIN recent_alerts :
           \A trade \in ProbeTrades :
               Invalid(trade) => TradeKey(trade, symbol) \notin recent_alerts[symbol]

\* a call under a threshold <= 0 and a non-empty cache, with an invalid trade
\* in its batch
C2_Witness ==
    /\ Detected
    /\ last.threshold <= 0
    /\ polls > 1
    /\ CacheOf(recent_alerts, last.symbol) # {}
    /\ \E i \in 1..Len(last.trades) : Invalid(last.trades[i])

\* C3: a trade whose key was alerted before, in an earlier call or earlier
\* in the batch, with fewer than keep_count distinct keys alerted since, is not
\* returned again (the claim as stated).
C3_IdempotentWithinWindow ==
    [][last'.op = "detect_whales" =>
        LET log == alert_log[last'.symbol]
            logged == Range(log)
            returned == KeysOf(last'.whale_trades, last'.symbol)
        IN  \A i \in 1..Len(returned) :
                /\ \A j \in 1..(i - 1) :
                       returned[j] = returned[i] =>
                           Cardinality(Range(SubSeq(returned, j + 1, i - 1))) >= keep_count
                /\ returned[i] \in logged =>
                       Cardinality(NewerThan(log, returned[i])
                                   \cup Range(SubSeq(returned, 1, i - 1))) >= keep_count]_vars

\* C4 as stated: no key is ever returned twice for one symbol.
C4_NeverAlertedTwice ==
    [][last'.op = "detect_whales" =>
        LET returned == KeysOf(last'.whale_trades, last'.symbol)
        IN  \A i \in 1..Len(returned) :
                /\ returned[i] \notin Range(alert_log[last'.symbol])
                /\ \A j \in 1..(i - 1) : returned[j] # returned[i]]_vars

\* C4, amended: no key is returned while the symbol's cache holds it: every
\* returned key was absent from the cache when the call started, and no two
\* trades returned by one call share a key.
C4_NeverAlertedWhileCached ==
    [][last'.op = "detect_whales" =>
        LET returned == KeysOf(last'.whale_trades, last'.symbol)
        IN  \A i \in 1..Len(returned) :
                /\ returned[i] \notin CacheOf(recent_alerts, last'.symbol)
                /\ \A j \in 1..(i - 1) : returned[j] # returned[i]]_vars

\* a later poll fetched cached trades again and returned none of them
C4_Witness ==
    /\ Detected
    /\ polls > 1
    /\ last.trades # <<>>
    /\ last.whale_trades = <<>>
    /\ Range(KeysOf(last.trades, last.symbol)) \subseteq CacheOf(recent_alerts, last.symbol)

\* C5: every symbol's cache holds at most max_alerts_per_symbol keys.
C5_CacheCapped ==
    \A symbol \in DOMAIN recent_alerts :
        Cardinality(recent_alerts[symbol]) <= max_alerts_per_symbol

\* MaxTradeId (150) distinct keys were alerted for one symbol and its cache
\* was trimmed
C5_Witness ==
    /\ Detected
    /\ last.symbol \in last.trimmed
    /\ Len(alert_log[last.symbol]) >= MaxTradeId

\* C6: a trimmed cache holds exactly the keep_count most recently inserted
\* keys (the claim as stated).
C6_TrimKeepsMostRecent ==
    Detected =>
        \A symbol \in last.trimmed :
            recent_alerts[symbol] = Range(LastN(alert_log[symbol], keep_count))

\* C7: detect_whales uses the table entry of the symbol without its quote
\* suffix when there is one, else the default (the claim as stated).
C7_ThresholdOfStrippedSymbol ==
    (Detected /\ last.trades # <<>>) =>
        last.threshold = DictGet(WHALE_THRESHOLDS, stripQuoteSuffix(last.symbol),
                                 DEFAULT_WHALE_THRESHOLD)

\* C8: recent_alerts_count is the number of keys cached for the symbol, and a
\* call that trims nothing raises that number by the alerts it returns, so a
\* suppressed submission adds nothing.
C8_SummaryCountsCachedKeys ==
    [][ /\ last'.op = "get_whale_summary" =>
             last'.summary.recent_alerts_count
                 = Cardinality(CacheOf(recent_alerts, last'.symbol))
        /\ (last'.op = "detect_whales" /\ last'.trimmed = {}) =>
             Cardinality(CacheOf(recent_alerts', last'.symbol))
                 = Cardinality(CacheOf(recent_alerts, last'.symbol))
                   + Len(last'.whale_trades) ]_vars

\* after two polls that alerted tx123 alone, the summary counts one key
C8_Witness ==
    /\ last.op = "get_whale_summary"
    /\ last.symbol = BTCUSDT
    /\ polls = 2
    /\ alert_log[BTCUSDT] = <<TradeKey(Tx123, BTCUSDT)>>
    /\ last.summary.recent_alerts_count = 1

\* C9: get_whale_summary leaves every cache and the threshold table as they
\* were.
C9_SummaryReadOnly ==
    [][last'.op = "get_whale_summary" =>
        /\ recent_alerts' = recent_alerts
        /\ WHALE_THRESHOLDS' = WHALE_THRESHOLDS
        /\ DEFAULT_WHALE_THRESHOLD' = DEFAULT_WHALE_THRESHOLD]_vars

\* a summary of a symbol that has no cache, while another symbol has one
C9_Witness ==
    /\ last.op = "get_whale_summary"
    /\ last.symbol \notin DOMAIN recent_alerts
    /\ DOMAIN recent_alerts # {}

\* C10: after update_threshold(symbol, v) returned True the threshold of that
\* symbol resolves to v, and a detect_whales call for that symbol which
\* comes next classifies its trades against v.
C10_UpdateRoundTrip ==
    [][ /\ (last'.op = "update_threshold" /\ last'.ok) =>
             get_whale_threshold(WHALE_THRESHOLDS', DEFAULT_WHALE_THRESHOLD', last'.symbol)
                 = last'.new_threshold
        /\ ( /\ last.op = "update_threshold" /\ last.ok
             /\ last'.op = "detect_whales" /\ last'.symbol = last.symbol
             /\ last'.trades # <<>> ) =>
             /\ last'.threshold = last.new_threshold
             /\ \A i \in 1..Len(last'.whale_trades) :
                    Qualifies(last'.whale_trades[i], last.new_threshold)
             /\ \A i \in 1..Len(last'.trades) :
                    ( /\ Qualifies(last'.trades[i], last.new_threshold)
                      /\ FirstSeen(recent_alerts, last'.trades, last'.symbol, i) )
                    => last'.trades[i] \in Range(last'.whale_trades) ]_vars

\* an update for the symbol whose base symbol is empty returned True
C10_Witness ==
    /\ last.op = "update_threshold"
    /\ last.ok
    /\ last.symbol = USDCUSDT
    /\ polls > 0

----------------------------------------------------------------------------
(* C11..C20 *)

\* the keys whose entry differs between two threshold tables
ChangedEntries(before, after) ==
    {base \in DOMAIN before \cup DOMAIN after :
        \/ base \notin DOMAIN before
        \/ base \notin DOMAIN after
        \/ before[base] # after[base]}

\* C11: update_threshold changes at most one entry of the threshold table and
\* leaves the default threshold and every alert cache as they were; no other
\* operation changes the threshold table.
C11_UpdateReplacesSingleEntry ==
    [][ /\ last'.op = "update_threshold" =>
             /\ Cardinality(ChangedEntries(WHALE_THRESHOLDS, WHALE_THRESHOLDS')) <= 1
             /\ DEFAULT_WHALE_THRESHOLD' = DEFAULT_WHALE_THRESHOLD
             /\ recent_alerts' = recent_alerts
        /\ last'.op # "update_threshold" => WHALE_THRESHOLDS' = WHALE_THRESHOLDS ]_vars

\* an update changed one entry of a table of three while a cache was held
C11_Witness ==
    /\ last.op = "update_threshold"
    /\ Cardinality(DOMAIN WHALE_THRESHOLDS) >= 3
    /\ WHALE_THRESHOLDS[<<"BTC">>] = last.new_threshold
    /\ DOMAIN recent_alerts # {}

\* the get_recent_trades call in progress, or the last one, is ExchangeMonitor's
ExchangeCall == trades_call.pc # "idle" /\ request.monitor = "ExchangeMonitor"

\* C12: get_recent_trades calls the Binance adapter first; when its list is
\* non-empty that list is returned and the Bybit adapter is not called; the
\* Bybit adapter is called, and its list returned, only when the Binance list
\* is empty; the returned list is empty exactly when every adapter returned
\* an empty list.
C12_FallbackSelection ==
    LET queried == trades_call.queried
    IN  /\ trades_call.pc = "bybit" =>
              queried = <<Queried("binance", <<>>)>>
        /\ (ExchangeCall /\ trades_call.pc = "done") =>
              /\ Len(queried) \in {1, 2}
              /\ queried[1].adapter = "binance"
              /\ queried[1].trades # <<>> =>
                     Len(queried) = 1 /\ trades_call.trades = queried[1].trades
              /\ Len(queried) = 2 =>
                     /\ queried[1].trades = <<>>
                     /\ queried[2].adapter = "bybit"
                     /\ trades_call.trades = queried[2].trades
              /\ trades_call.trades = <<>> <=>
                     ( /\ Len(queried) = 2
                       /\ \A i \in 1..2 : queried[i].trades = <<>> )

\* Binance gave nothing after its retries and the call returned Bybit's trade
C12_Witness ==
    /\ trades_call.pc = "done"
    /\ Len(trades_call.queried) = 2
    /\ trades_call.trades = <<BybitTrade(BybitNative, BTCUSDT)>>

\* C13: when every adapter returned an empty list, get_recent_trades returns
\* an empty list and the source it reports is "none" (the claim as stated).
C13_NoneWhenAllEmpty ==
    (ExchangeCall /\ trades_call.pc = "done" /\ \A i \in 1..Len(trades_call.queried) :
                                    trades_call.queried[i].trades = <<>>)
    => (trades_call.trades = <<>> /\ current_exchange = "none")

\* C14: after a get_recent_trades call, current_exchange names the adapter of
\* the most recent non-empty result, and names only an adapter that has
\* returned a non-empty result since startup (the claim as stated).
C14_LastSuccessfulSource ==
    (ExchangeCall /\ trades_call.pc = "done") =>
        /\ served.last # "none" => current_exchange = served.last
        /\ current_exchange # "none" => current_exchange \in served.ever

\* the outbound requests of a log
RequestsOf(log) == SelectSeq(log, LAMBDA e : e.ev = "request")

\* the response was a 200 whose body is JSON
Parsed(outcome) == outcome.status = 200 /\ outcome.body.kind # "text"

\* what is left for a call to do at most: three awaits for each iteration
\* not yet begun, less the awaits passed in the current one
StepsLeft(frame, max_retries) ==
    CASE frame.pc = "rate_limit" -> 3 * (max_retries - frame.attempt)
      [] frame.pc = "get" -> 3 * (max_retries - frame.attempt) - 1
      [] frame.pc \in {"rate_limited_sleep", "retry_sleep"} ->
             3 * (max_retries - frame.attempt) - 2
      [] OTHER -> 0

InFlight(frame) == frame.pc \notin {"idle", "done", "raised"}

\* C15: a _make_request call ends after a bounded number of steps (every step
\* of the call lowers what is left for it to do), it never has issued more
\* than MAX_RETRIES requests, and it has issued at least one when it returns.
C15_BoundedAttempts ==
    [][ /\ Len(RequestsOf(fetch_log')) <= MAX_RETRIES
        /\ request'.pc = "done" => Len(RequestsOf(fetch_log')) >= 1
        /\ (InFlight(request) /\ request' # request) =>
               /\ request'.pc \in {"rate_limit", "get", "rate_limited_sleep",
                                   "retry_sleep", "done"}
               /\ StepsLeft(request', MAX_RETRIES) < StepsLeft(request, MAX_RETRIES)
               /\ StepsLeft(request, MAX_RETRIES) > 0 ]_vars

\* a call returned after three requests that met a 429, a timeout and a
\* transport error
C15_Witness ==
    /\ request.pc = "done"
    /\ MAX_RETRIES = 3
    /\ Len(RequestsOf(fetch_log)) = 3
    /\ \E e \in Range(fetch_log) : e.outcome.status = 429
    /\ \E e \in Range(fetch_log) : e.outcome.raised = "TimeoutError"
    /\ \E e \in Range(fetch_log) : e.outcome.raised = "ClientError"

\* C16: no failure leaves _make_request as an exception, and a call whose
\* MAX_RETRIES requests all failed returns None.
C16_ExhaustedReturnsNone ==
    /\ request.pc # "raised"
    /\ ( /\ request.pc = "done"
         /\ Len(RequestsOf(fetch_log)) = MAX_RETRIES
         /\ \A e \in Range(RequestsOf(fetch_log)) : ~Parsed(e.outcome) )
       => request.data = None

\* a CryptoMonitor call returned None after three failures of different kinds
C16_Witness ==
    /\ request.pc = "done"
    /\ request.monitor = "CryptoMonitor"
    /\ request.data = None
    /\ Len(RequestsOf(fetch_log)) = 3
    /\ \E e \in Range(fetch_log) : e.outcome.status = 500
    /\ \E e \in Range(fetch_log) : e.outcome.raised = "TimeoutError"
    /\ fetch_log[Len(fetch_log)].ev = "sleep"

\* C17 as stated: a request answered with status 200 is the last thing its
\* call does: the call has returned, with the body of that response.
C17_ReturnsOnFirst200 ==
    \A i \in 1..Len(fetch_log) :
        (fetch_log[i].ev = "request" /\ fetch_log[i].outcome.status = 200) =>
            /\ i = Len(fetch_log)
            /\ request.pc = "done"
            /\ request.data = fetch_log[i].outcome.body

\* C17, amended: a request answered with status 200 and a body that parses as
\* JSON is the last thing its call does: the call has returned, with that
\* body, and no request or sleep follows.
C17_ReturnsOnFirstParsed200 ==
    \A i \in 1..Len(fetch_log) :
        (fetch_log[i].ev = "request" /\ Parsed(fetch_log[i].outcome)) =>
            /\ i = Len(fetch_log)
            /\ request.pc = "done"
            /\ request.data = fetch_log[i].outcome.body

\* the first request of a call, which can still retry, was answered 200 with
\* a JSON body
C17_Witness ==
    /\ request.pc = "done"
    /\ MAX_RETRIES > 1
    /\ Len(fetch_log) = 2
    /\ Parsed(fetch_log[2].outcome)
    /\ request.data = ListBody(<<BinanceNative>>)

\* C18: every request of a call comes right after an acquire of the rate
\* limiter made in the same iteration.
C18_AcquireBeforeEveryRequest ==
    \A i \in 1..Len(fetch_log) :
        fetch_log[i].ev = "request" =>
            /\ i > 1
            /\ fetch_log[i - 1].ev = "acquire"
            /\ fetch_log[i - 1].attempt = fetch_log[i].attempt

\* a call made its third request, after a 429 and a timeout
C18_Witness ==
    /\ Len(RequestsOf(fetch_log)) = 3
    /\ RequestsOf(fetch_log)[1].outcome.status = 429
    /\ RequestsOf(fetch_log)[2].outcome.raised = "TimeoutError"

\* the sleeps a log holds after a 429
RateLimitedSleeps(log) ==
    {i \in 2..Len(log) : log[i].ev = "sleep" /\ log[i - 1].outcome.status = 429}

\* C19: after a 429 in iteration a, every fetcher sleeps a time that grows
\* with a and is not the generic delay RETRY_DELAY * (a + 1), and the 429 has
\* used up the iteration: what follows is iteration a + 1 or the return of
\* None (the claim as stated).
C19_ProgressiveBackoffOn429 ==
    /\ \A i \in 1..Len(fetch_log) :
           (fetch_log[i].ev = "request" /\ fetch_log[i].outcome.status = 429) =>
               /\ i = Len(fetch_log) => request.pc = "rate_limited_sleep"
               /\ i < Len(fetch_log) =>
                      /\ fetch_log[i + 1].ev = "sleep"
                      /\ fetch_log[i + 1].attempt = fetch_log[i].attempt
               /\ i + 1 < Len(fetch_log) =>
                      /\ fetch_log[i + 2].ev = "acquire"
                      /\ fetch_log[i + 2].attempt = fetch_log[i].attempt + 1
    /\ \A i \in RateLimitedSleeps(fetch_log) :
           /\ fetch_log[i].waited # Seconds(RETRY_DELAY * (fetch_log[i].attempt + 1))
           /\ \A j \in RateLimitedSleeps(fetch_log) :
                  fetch_log[i].attempt < fetch_log[j].attempt =>
                      fetch_log[i].waited < fetch_log[j].waited

\* the backoff a fetcher owes for a 429 in iteration `attempt`
backoffDelay(monitor, attempt, retry_delay) ==
    IF monitor = "CryptoMonitor"
    THEN Seconds(30) + attempt * Seconds(15)
    ELSE Seconds(retry_delay) * (attempt + 1)

RECURSIVE SumOver(_, _, _)
SumOver(f(_), lo, hi) == IF lo > hi THEN 0 ELSE f(lo) + SumOver(f, lo + 1, hi)

\* the time a call has slept, in the rate limiter and after failures
TotalWait(log) ==
    LET waited(i) == log[i].waited
    IN  SumOver(waited, 1, Len(log))

\* C20: a call whose requests were answered 429 on the first k - 1 and 200
\* with a JSON body on the k-th returns that body from iteration k - 1, and
\* has slept at least the sum of the k - 1 backoff delays.
C20_SucceedsAfterBackoffs ==
    LET requests == RequestsOf(fetch_log)
        k == Len(requests)
        owed(a) == backoffDelay(request.monitor, a - 1, RETRY_DELAY)
    IN  ( /\ request.pc = "done"
          /\ k >= 1
          /\ Parsed(requests[k].outcome)
          /\ \A a \in 1..(k - 1) : requests[a].outcome.status = 429 )
        => /\ request.data = requests[k].outcome.body
           /\ request.attempt = k - 1
           /\ TotalWait(fetch_log) >= SumOver(owed, 1, k - 1)

\* 429, 429, 200: the third request of a CryptoMonitor call succeeded
C20_Witness ==
    /\ request.pc = "done"
    /\ request.monitor = "CryptoMonitor"
    /\ Len(RequestsOf(fetch_log)) = 3
    /\ RequestsOf(fetch_log)[1].outcome.status = 429
    /\ RequestsOf(fetch_log)[2].outcome.status = 429
    /\ Parsed(RequestsOf(fetch_log)[3].outcome)
    /\ TotalWait(fetch_log) >= Seconds(75)

----------------------------------------------------------------------------
(* C21..C30 *)

\* the request failed otherwise than by a 429: another status, an exception,
\* or a body that is not JSON
OtherFailure(outcome) == ~Parsed(outcome) /\ outcome.status # 429

\* the sleeps a log holds after such a failure
RetrySleeps(log) ==
    {i \in 2..Len(log) : log[i].ev = "sleep" /\ log[i - 1].ev = "request"
                                            /\ OtherFailure(log[i - 1].outcome)}

C22_AcquiresSeparated ==
    [][ ( /\ request.pc = "rate_limit"
          /\ request'.pc = "get"
          /\ since_last_request[request.monitor] # NoRequestYet ) =>
            since_last_request[request.monitor] + fetch_log'[Len(fetch_log')].waited
                >= interval(MAX_REQUESTS_PER_MINUTE) ]_vars

\* what _make_request returned is not what the adapter awaiting it reads
\* trades from: no data, a body of another shape, a Bybit retCode other than
\* 0, or a price that is no number or 0
NothingToRead(adapter, data) ==
    \/ Falsy(data)
    \/ adapter = "binance" /\ data.kind # "list"
    \/ adapter = "bybit" /\ (data.kind # "dict" \/ data.retCode # 0)
    \/ adapter = "prices" /\ (data.kind # "prices" \/ data.list[1] \in {Text, Number(0)})

\* C23: when an adapter returns (Binance, Bybit, and with them the aggregate;
\* CryptoMonitor.get_recent_trades), no exception leaves the call, and the
\* adapter returns the empty list when the fetch failed, the response has
\* not the expected shape, or an internal error occurred.
C23_AdaptersNeverRaise ==
    [][ ( /\ trades_call.pc \in {"binance", "bybit", "prices"}
          /\ request.pc = "done"
          /\ trades_call' # trades_call ) =>
            /\ trades_call'.pc \in {"bybit", "done"}
            /\ NothingToRead(trades_call.pc, request.data) =>
                   trades_call'.queried[Len(trades_call'.queried)].trades = <<>> ]_vars

\* Binance answered with a JSON object, which its adapter cannot iterate as
\* trades, and Bybit with retCode 10001: the call returned the empty list
C23_Witness ==
    /\ ExchangeCall
    /\ trades_call.pc = "done"
    /\ Len(trades_call.queried) = 2
    /\ request.data = DictBody(10001, <<>>)
    /\ trades_call.trades = <<>>

\* the field is there and is no number
Unparsable(field) == field.json \in {"text", "null"}

\* a numeric field of the native record cannot be parsed
BadRecord(adapter, record) ==
    \/ Unparsable(record.price)
    \/ Unparsable(IF adapter = "binance" THEN record.qty ELSE record.size)
    \/ Unparsable(record.time)

\* the adapter that awaited _make_request has read a batch and returns
ReturnsBatch ==
    /\ request.pc = "done"
    /\ trades_call' # trades_call
    /\ \/ trades_call.pc = "binance" /\ request.data.kind = "list"
       \/ trades_call.pc = "bybit" /\ request.data.kind = "dict"
                                   /\ request.data.retCode = 0

TradesGot ==
    UNION {Range(trades_call.queried[i].trades) : i \in 1..Len(trades_call.queried)}

\* C25: every trade an adapter returns has side "Buy" or "Sell".
C25_SideIsBuyOrSell ==
    \A trade \in TradesGot \cup Range(trades_call.trades) :
        trade.side \in {"Buy", "Sell"}

\* C26: the Binance adapter gives a record with isBuyerMaker = true the side
\* "Sell", and one with isBuyerMaker = false the side "Buy".
C26_MakerFlagInverted ==
    [][ (ReturnsBatch /\ trades_call.pc = "binance") =>
            LET others == SelectSeq(request.data.list,
                                    LAMBDA record : ~BadRecord("binance", record))
                returned == trades_call'.queried[Len(trades_call'.queried)].trades
            IN  \A i \in 1..Min(Len(others), Len(returned)) :
                    returned[i].side
                        = IF others[i].isBuyerMaker THEN "Sell" ELSE "Buy" ]_vars

\* C27: the trades handed to detect_whales all have a price above 0 and a
\* quantity above 0.
C27_OnlyPositiveTradesReachDetector ==
    last.op = "detect_whales" =>
        \A i \in 1..Len(last.trades) :
            last.trades[i].price > 0 /\ last.trades[i].qty > 0

\* the fetches of the cycle so far, in order
FetchesOf(log) == SelectSeq(log, LAMBDA e : e.ev = "fetch")

\* check_whale_transactions has returned
CycleOver == bot.pc = "interval" \/ (bot.pc = "check" /\ bot.cycles > 0)

\* C28: in a cycle the symbols are attempted one time each: the i-th fetch is
\* that of the i-th symbol, whatever became of the fetches before it, the
\* cycle is at the symbol of its latest fetch or about to fetch the next, and
\* it is over only when every symbol has been attempted.
C28_EverySymbolAttemptedOnce ==
    LET fetches == FetchesOf(cycle_log)
    IN  /\ \A i \in 1..Len(fetches) : fetches[i].index = i
        /\ Len(fetches) <= Len(MONITORED_SYMBOLS)
        /\ bot.pc = "fetch" => Len(fetches) = bot.index - 1
        /\ bot.pc \in {"notify", "delay"} => Len(fetches) = bot.index
        /\ CycleOver => Len(fetches) = Len(MONITORED_SYMBOLS)

\* the fetch of the first symbol raised, a whale trade of the second was
\* notified, and the third symbol was attempted before the cycle ended
C28_Witness ==
    /\ bot.pc = "interval"
    /\ FetchesOf(cycle_log)[1].outcome = "raised"
    /\ \E i \in 1..Len(cycle_log) :
           cycle_log[i].ev = "notify" /\ cycle_log[i].index = 2
    /\ Len(FetchesOf(cycle_log)) = 3

\* C29: within a cycle everything done for a symbol comes after everything
\* done for the symbols configured before it, a symbol's fetch first; and a
\* cycle begins only from the top of the loop, the first at once and each
\* later one when the cycle before has attempted every symbol and the loop
\* has then slept CHECK_INTERVAL seconds.
C29_OrderedSymbolsAndCycles ==
    [][ /\ \A j, k \in 1..Len(cycle_log') :
               j < k => /\ cycle_log'[j].index <= cycle_log'[k].index
                        /\ cycle_log'[k].ev = "fetch" =>
                               cycle_log'[j].index < cycle_log'[k].index
        /\ bot'.cycles # bot.cycles =>
               /\ bot.pc = "check"
               /\ bot'.cycles = bot.cycles + 1
               /\ bot'.pc = "fetch" /\ bot'.index = 1
               /\ bot.cycles > 0 =>
                      /\ Len(FetchesOf(cycle_log)) = Len(MONITORED_SYMBOLS)
                      /\ cycle_log[Len(cycle_log)].ev = "interval"
                      /\ cycle_log[Len(cycle_log)].waited = CHECK_INTERVAL ]_vars

\* the second cycle is under way, at its second symbol
C29_Witness ==
    /\ bot.cycles = 2
    /\ bot.pc = "notify"
    /\ bot.index = 2

\* C30: between the fetches of two symbols that follow one another in a
\* cycle the scheduler sleeps the inter-symbol delay, whatever the outcome of
\* the earlier symbol.
C30_DelayBetweenSymbols ==
    \A k \in 2..Len(cycle_log) :
        cycle_log[k].ev = "fetch" =>
            /\ cycle_log[k - 1].ev = "delay"
            /\ cycle_log[k - 1].waited = inter_symbol_delay

----------------------------------------------------------------------------
(* C31..C40 *)

\* sub is seq with some of its elements left out
IsSubsequence(sub, seq) ==
    \E at \in [1..Len(sub) -> 1..Len(seq)] :
        /\ \A i \in 1..Len(sub) : seq[at[i]] = sub[i]
        /\ \A i, j \in 1..Len(sub) : i < j => at[i] < at[j]

\* C35: the list detect_whales returns is a subsequence of the batch, in the
\* order of the batch, and each trade of it has qty > 0, price > 0 and
\* qty * price >= the threshold the symbol resolves to when the call starts.
C35_ReturnedInOrderAndQualifying ==
    [][last'.op = "detect_whales" /\ polls' # polls =>
        /\ IsSubsequence(last'.whale_trades, last'.trades)
        /\ \A i \in 1..Len(last'.whale_trades) :
               Qualifies(last'.whale_trades[i],
                         get_whale_threshold(WHALE_THRESHOLDS, DEFAULT_WHALE_THRESHOLD,
                                             last'.symbol))]_vars

\* a batch of a whale trade and a trade of positive quantity and price below
\* the threshold, of which the whale trade alone is returned
C35_Witness ==
    /\ Detected
    /\ last.threshold > 0
    /\ Len(last.whale_trades) = 1
    /\ \E i \in 1..Len(last.trades) :
           /\ ~Invalid(last.trades[i])
           /\ usd_value(last.trades[i]) < Usd(last.threshold)

\* C38: a detect_whales call for a symbol leaves the cache of every other
\* symbol as it was, and returns a qualifying trade whose key is new to the
\* symbol's own cache and to the batch although another symbol's cache holds
\* that key.
C38_CachesIsolatedPerSymbol ==
    [][last'.op = "detect_whales" /\ polls' # polls =>
        /\ \A other \in Symbols \ {last'.symbol} :
               /\ other \in DOMAIN recent_alerts' <=> other \in DOMAIN recent_alerts
               /\ CacheOf(recent_alerts', other) = CacheOf(recent_alerts, other)
        /\ \A i \in 1..Len(last'.trades) :
               (/\ Qualifies(last'.trades[i], last'.threshold)
                /\ FirstSeen(recent_alerts, last'.trades, last'.symbol, i)
                /\ \E other \in Symbols \ {last'.symbol} :
                       TradeKey(last'.trades[i], last'.symbol)
                           \in CacheOf(recent_alerts, other))
               => last'.trades[i] \in Range(last'.whale_trades)]_vars

\* a call that returns a trade whose key another symbol's cache holds
C38_Witness ==
    /\ Detected
    /\ \E i \in 1..Len(last.whale_trades) :
           \E other \in Symbols \ {last.symbol} :
               TradeKey(last.whale_trades[i], last.symbol)
                   \in CacheOf(recent_alerts, other)

\* C39: each key in a symbol's cache is the key of a trade an earlier
\* detect_whales call for that symbol returned; a call adds to the caches no
\* key but those of the trades it returns, and a call that returns nothing
\* (an empty batch, or a batch without a whale) leaves recent_alerts as it was.
C39_CacheHoldsReturnedKeysOnly ==
    /\ [](\A symbol \in DOMAIN recent_alerts :
              recent_alerts[symbol] \subseteq Range(alert_log[symbol]))
    /\ [][last'.op = "detect_whales" /\ polls' # polls =>
            /\ \A symbol \in Symbols :
                   CacheOf(recent_alerts', symbol) \ CacheOf(recent_alerts, symbol)
                       \subseteq IF symbol = last'.symbol
                                 THEN Range(KeysOf(last'.whale_trades, symbol))
                                 ELSE {}
            /\ last'.whale_trades = <<>> => recent_alerts' = recent_alerts]_vars

\* a call that returns nothing of a batch holding a trade whose key is cached
\* and a trade that does not qualify, while the symbol has a cache
C39_Witness ==
    /\ Detected
    /\ last.whale_trades = <<>>
    /\ CacheOf(recent_alerts, last.symbol) # {}
    /\ \E i, j \in 1..Len(last.trades) :
           /\ TradeKey(last.trades[i], last.symbol) \in CacheOf(recent_alerts, last.symbol)
           /\ ~Qualifies(last.trades[j], last.threshold)

\* C40: a delay follows a failed request only between attempts: none is taken
\* after the request of the final iteration, MAX_RETRIES - 1, whatever the
\* failure was (the claim as stated).
C40_NoDelayAfterFinalAttempt ==
    \A i \in 2..Len(fetch_log) :
        (fetch_log[i].ev = "sleep" /\ fetch_log[i - 1].ev = "request") =>
            fetch_log[i].attempt < MAX_RETRIES - 1

\* the send_whale_alert calls made for the symbol in the cycle, in order
DeliveriesOf(cycle, symbol) ==
    SelectSeq(deliveries, LAMBDA d : d.cycle = cycle /\ d.symbol = symbol)

DeliveredKeys(cycle, symbol) ==
    [i \in 1..Len(DeliveriesOf(cycle, symbol)) |-> DeliveriesOf(cycle, symbol)[i].key]

\* C34: for the symbol a cycle is at, send_whale_alert is called once for each
\* trade detect_whales returned, in the order of that list, whatever the
\* outcome of each call: while the calls are under way those made are the head
\* of the list, and when the symbol is done they are the whole list.
C34_OneDeliveryPerWhaleInOrder ==
    LET keys == KeysOf(last.whale_trades, last.symbol)
        delivered == DeliveredKeys(bot.cycles, CurrentSymbol)
    IN  /\ bot.pc = "fetch" => delivered = <<>>
        /\ bot.pc = "notify" =>
               /\ last.symbol = CurrentSymbol
               /\ Len(delivered) < Len(keys)
               /\ delivered = SubSeq(keys, 1, Len(delivered))
        /\ bot.pc = "delay" =>
               /\ last.symbol = CurrentSymbol
               /\ delivered = keys

\* the symbol is done after two whale trades, of which the delivery of the
\* first failed
C34_Witness ==
    /\ bot.pc = "delay"
    /\ Len(last.whale_trades) = 2
    /\ Len(DeliveriesOf(bot.cycles, CurrentSymbol)) = 2
    /\ DeliveriesOf(bot.cycles, CurrentSymbol)[1].outcome = "failed"

\* no key of the symbol has left its cache
NeverTrimmed(symbol) == Range(alert_log[symbol]) \subseteq CacheOf(recent_alerts, symbol)

\* C37: the key of a trade is in the symbol's cache when send_whale_alert is
\* called for it, and as long as no key has left that cache no second call is
\* made for the key, in the same cycle or a later one, whether the first call
\* delivered or failed.
C37_AtMostOneDeliveryPerCachedKey ==
    /\ [][deliveries' # deliveries =>
            LET d == deliveries'[Len(deliveries')]
            IN  d.key \in CacheOf(recent_alerts, d.symbol)]_vars
    /\ [](\A i, j \in 1..Len(deliveries) :
              ( /\ i < j
                /\ deliveries[i].symbol = deliveries[j].symbol
                /\ NeverTrimmed(deliveries[i].symbol) )
              => deliveries[i].key # deliveries[j].key)

\* the second cycle polled again a trade whose delivery failed in the first,
\* and detect_whales returned nothing
C37_Witness ==
    /\ bot.cycles = 2
    /\ bot.pc = "delay"
    /\ last.symbol = CurrentSymbol
    /\ last.whale_trades = <<>>
    /\ \E d \in Range(deliveries) :
           /\ d.cycle = 1
           /\ d.symbol = CurrentSymbol
           /\ d.outcome = "failed"
           /\ d.key \in Range(KeysOf(last.trades, last.symbol))

\* a stop() call has run `self.running = False`
StopRan == \E i \in 1..Len(stops) : stops[i].pc # "called"

\* C31: once stop() has cleared running while the loop is in a cycle, the
\* scheduler goes no further than the step of the current symbol: it starts
\* no fetch for another symbol and no new cycle (the claim as stated).
C31_StopsAfterCurrentSymbol ==
    [][(app.pc = "loop" /\ ~running) =>
        /\ bot'.cycles = bot.cycles
        /\ ~(bot'.pc = "fetch" /\ bot'.index # bot.index)]_vars

\* C32: when main() has returned, neither the monitor nor the notifier holds
\* an open session (the claim as stated).
C32_NoSessionOpenAfterShutdown ==
    app.pc = "returned" => sessions.monitor # "open" /\ sessions.notifier # "open"

LastEvent == cycle_log[Len(cycle_log)]

\* C33: an Exception that leaves check_whale_transactions takes the loop to
\* its 5 second pause and from there to the top of the loop, where the next
\* cycle begins as long as running is true; the pause is left otherwise only
\* by a cancellation, and the loop is left without one only when running is
\* false.
C33_CycleErrorPausesLoop ==
    [][ /\ (cycle_log' # cycle_log /\ cycle_log' # <<>> /\ LastEvent'.ev = "error") =>
               bot'.pc = "pause"
        /\ (bot.pc = "pause" /\ bot' # bot) =>
               \/ bot'.pc = "cancelled"
               \/ /\ bot'.pc = "check"
                  /\ bot'.cycles = bot.cycles
                  /\ LastEvent'.ev = "pause"
                  /\ LastEvent'.waited = 5
        /\ (bot.pc = "check" /\ bot' # bot /\ running) =>
               bot'.pc = "fetch" /\ bot'.cycles = bot.cycles + 1
        /\ (bot'.pc = "exited" /\ bot.pc # "exited") => ~running ]_vars

\* the loop is back at its top after an error and the pause, running is true
\* and the next cycle can begin
C33_Witness ==
    /\ app.pc = "loop"
    /\ bot.pc = "check"
    /\ running
    /\ Len(cycle_log) >= 2
    /\ cycle_log[Len(cycle_log) - 1].ev = "error"
    /\ LastEvent.ev = "pause"
    /\ ENABLED CheckWhaleTransactions

\* C36: once a stop() call has run, the monitoring loop begins no further
\* cycle: the `while self.running` test that follows finds running false,
\* at whatever await of start() the call ran (the claim as a property of
\* finite runs).
C36_NoCycleAfterStop ==
    [][StopRan => bot'.cycles = bot.cycles]_vars

====
